---- MODULE Spec2Model ----
(***************************************************************************)
(* Verification & analytics engine of the UIDAI verification portal.       *)
(*                                                                         *)
(* The module models the server of src/server/storage.ts (lines 448-1067,  *)
(* the reference loader, the upload handler and its verification loop)     *)
(* and the upload handler of src/server/routes.ts.                         *)
(*                                                                         *)
(* JavaScript values are records [t, n, s]: t is the type tag, n the       *)
(* number (for t = "number"), s the text as a sequence of one-character    *)
(* strings (for t = "string").  A row is a function from the column names  *)
(* it owns to values; a column that is not in its DOMAIN reads undefined.  *)
(***************************************************************************)
EXTENDS Naturals, Integers, Sequences, FiniteSets, TLC

VARIABLES
    govDataSets,    \* storage.ts:504  variant -> Map(key -> GovRecord)
    govDataLoaded,  \* storage.ts:509  set of variants marked loaded
    loadIdx,        \* storage.ts:675  position of loadGovernmentData in KNOWN_FILE_TYPES
    uploads,        \* table "uploads" (storage.createUpload)
    records,        \* table "records" (storage.createRecords)
    req,            \* the upload request in flight and the handler's position
    trace,          \* per row of the last verification loop: key, lookup, compared columns
    govDataMap,     \* routes.ts:29  the key set of the routes.ts server
    keyRows,        \* the two rows handed to buildRecordKey
    keyOut,         \* the two keys buildRecordKey returned
    cmpIn,          \* the reference cell and the uploaded cell handed to the matcher
    cmpOut,         \* the stored reference value and the matcher's comparison
    detectIn,       \* the header set handed to the file type detection
    detectOut,      \* the file type detected
    charts,         \* the response of the last charts request
    resolveIn,      \* the environment and the file system resolveGovDataSource reads
    resolveOut,     \* the source resolveGovDataSource returned
    reqFile,        \* req.file of the upload request handled last
    chartsReq,      \* the charts request in flight: what its queries returned so far
    reply,          \* the response of the last request that only reads
    unzip,          \* a load from an archive: the parser, the unzip child, the load
    govParse,       \* a reference file and what parseGovernmentDataset resolved with
    stored          \* a long upload: its verdicts, its summary, the records persisted

vars == <<govDataSets, govDataLoaded, loadIdx, uploads, records, req, trace,
          govDataMap, keyRows, keyOut, cmpIn, cmpOut,
          detectIn, detectOut, charts, resolveIn, resolveOut, reqFile,
          chartsReq, reply, unzip, govParse, stored>>

----------------------------------------------------------------------------
(* Bounds of the model *)

\* rows parsed from the files uploaded in one run (all uploads together)
MaxRows == 2
\* upload requests handled in one run
MaxUploads == 1
\* rows of one reference file
MaxRefRows == 1
\* length of the cell texts handed to the matcher's value comparison
MaxLen == 2
\* upload requests handled in one run of the routes.ts server
MaxRuns == 2
\* districts that the routes.ts server generates for a state (50 in the code)
MockDistricts == 1
\* rows of the file whose charts are requested
MaxBatch == 22

----------------------------------------------------------------------------
(* JavaScript values *)

Undefined == [t |-> "undefined", n |-> 0, s |-> <<>>]
Null == [t |-> "null", n |-> 0, s |-> <<>>]
Num(k) == [t |-> "number", n |-> k, s |-> <<>>]
Str(x) == [t |-> "string", n |-> 0, s |-> x]

\* row[col]: a property the object does not own reads undefined
Get(row, col) == IF col \in DOMAIN row THEN row[col] ELSE Undefined

\* !value
Falsy(v) ==
    \/ v.t \in {"undefined", "null"}
    \/ v.t = "number" /\ v.n = 0
    \/ v.t = "string" /\ v.s = <<>>

Digits == <<"0", "1", "2", "3", "4", "5", "6", "7", "8", "9">>

IsDigit(c) == \E i \in 1..10 : Digits[i] = c

DigitVal(c) == (CHOOSE i \in 1..10 : Digits[i] = c) - 1

RECURSIVE NumToStr(_)
\* String(n) of a non-negative integer
NumToStr(k) ==
    IF k < 10 THEN <<Digits[k + 1]>>
    ELSE NumToStr(k \div 10) \o <<Digits[(k % 10) + 1]>>

RECURSIVE StrToNum(_)
\* value of a non-empty text of decimal digits
StrToNum(x) ==
    IF Len(x) = 0 THEN 0
    ELSE 10 * StrToNum(SubSeq(x, 1, Len(x) - 1)) + DigitVal(x[Len(x)])

\* String(value)
JsString(v) ==
    CASE v.t = "undefined" -> <<"u", "n", "d", "e", "f", "i", "n", "e", "d">>
      [] v.t = "null" -> <<"n", "u", "l", "l">>
      [] v.t = "number" -> NumToStr(v.n)
      [] OTHER -> v.s

IsSpace(c) == c = " "

\* String.prototype.trim: the text from its first to its last non-space
Trim(x) ==
    LET inked == {i \in 1..Len(x) : ~IsSpace(x[i])}
    IN  IF inked = {} THEN <<>>
        ELSE SubSeq(x, CHOOSE i \in inked : \A j \in inked : i <= j,
                       CHOOSE i \in inked : \A j \in inked : j <= i)

LowerChar(c) ==
    CASE c = "A" -> "a"
      [] c = "D" -> "d"
      [] c = "G" -> "g"
      [] OTHER -> c

\* String.prototype.toLowerCase
ToLowerCase(x) == [i \in 1..Len(x) |-> LowerChar(x[i])]

\* Number(text) of a trimmed, non-empty text is a number exactly when the
\* text is a decimal numeral (the texts of the model hold letters, spaces
\* and digits only)
IsNumeral(x) == Len(x) > 0 /\ \A i \in 1..Len(x) : IsDigit(x[i])

----------------------------------------------------------------------------
(* Key derivation and value normalisation, storage.ts:519-554 *)

normalizeKeyPart_NoLowerCase(v) ==
    Trim(IF v.t \in {"undefined", "null"} THEN <<>> ELSE JsString(v))

\* String(value ?? "").trim().toLowerCase()
normalizeKeyPart(v) ==
    ToLowerCase(Trim(IF v.t \in {"undefined", "null"} THEN <<>> ELSE JsString(v)))

\* XLSX.SSF.parse_date_code for the serial numbers 1..31 (January 1900),
\* formatted as `${y}-${month}-${day}` with two-digit month and day
ExcelDate(k) ==
    <<"1", "9", "0", "0", "-", "0", "1", "-">>
        \o (IF k < 10 THEN <<"0">> ELSE <<>>) \o NumToStr(k)

normalizeDate(v) ==
    IF Falsy(v) THEN <<>>
    ELSE IF v.t = "number" /\ v.n \in 1..31 THEN ExcelDate(v.n)
    ELSE Trim(JsString(v))

\* buildRecordKey returns null
NoKey == <<>>

buildRecordKey_NoPincodeCheck(row) ==
    LET date == normalizeDate(Get(row, "date"))
        state == normalizeKeyPart(Get(row, "state"))
        district == normalizeKeyPart(Get(row, "district"))
        pincode == Trim(IF Get(row, "pincode").t \in {"undefined", "null"}
                        THEN <<>> ELSE JsString(Get(row, "pincode")))
    IN  IF date = <<>> \/ state = <<>> \/ district = <<>> THEN NoKey
        ELSE date \o <<"|">> \o state \o <<"|">> \o district \o <<"|">> \o pincode

buildRecordKey(row) ==
    LET date == normalizeDate(Get(row, "date"))
        state == normalizeKeyPart(Get(row, "state"))
        district == normalizeKeyPart(Get(row, "district"))
        pincode == Trim(IF Get(row, "pincode").t \in {"undefined", "null"}
                        THEN <<>> ELSE JsString(Get(row, "pincode")))
    IN  IF date = <<>> \/ state = <<>> \/ district = <<>> \/ pincode = <<>> THEN NoKey
        ELSE date \o <<"|">> \o state \o <<"|">> \o district \o <<"|">> \o pincode

normalizeComparableValue_NoBlankCheck(v) ==
    IF v.t \in {"null", "undefined"} \/ (v.t = "string" /\ v.s = <<>>) THEN Null
    ELSE IF v.t = "number" THEN v
    ELSE LET text == Trim(JsString(v))
         IN  IF text = <<>> THEN Num(0)
             ELSE IF IsNumeral(text) THEN Num(StrToNum(text))
             ELSE Str(ToLowerCase(text))

normalizeComparableValue(v) ==
    IF v.t \in {"null", "undefined"} \/ (v.t = "string" /\ v.s = <<>>) THEN Null
    ELSE IF v.t = "number" THEN v
    ELSE LET text == Trim(JsString(v))
         IN  IF text = <<>> THEN Null
             ELSE IF IsNumeral(text) THEN Num(StrToNum(text))
             ELSE Str(ToLowerCase(text))

----------------------------------------------------------------------------
(* Variants and their comparable columns, storage.ts:466-479 *)

KNOWN_FILE_TYPES == <<"biometric", "enrollment", "demographic">>

KnownFileType == {KNOWN_FILE_TYPES[i] : i \in 1..Len(KNOWN_FILE_TYPES)}

AGE_COLUMNS_BY_TYPE ==
    [biometric |-> <<"bio_age_5_17", "bio_age_17_">>,
     enrollment |-> <<"age_0_5", "age_5_17", "age_18_greater">>,
     demographic |-> <<"demo_age_5_17", "demo_age_17_">>]

isKnownFileType(value) == \E i \in 1..Len(KNOWN_FILE_TYPES) : KNOWN_FILE_TYPES[i] = value

Range(q) == {q[i] : i \in 1..Len(q)}

\* ageColumns.filter((col) => uploadedColumns.includes(col))
getComparableColumns(uploadedColumns, fileType) ==
    IF ~isKnownFileType(fileType) THEN <<>>
    ELSE SelectSeq(AGE_COLUMNS_BY_TYPE[fileType], LAMBDA col : col \in uploadedColumns)

----------------------------------------------------------------------------
(* Reference loader, storage.ts:629-691 *)

\* new Map()
EmptyMap == [k \in {} |-> Null]

\* Map.prototype.set
MapSet(m, k, v) == (k :> v) @@ m

\* a record of the cells the row owns only
GovRecordOf_OwnedOnly(row, ageColumns) ==
    [col \in (Range(ageColumns) \cap DOMAIN row) |-> normalizeComparableValue(Get(row, col))]

\* a record of the cells as they are in the file
GovRecordOf_Raw(row, ageColumns) ==
    [col \in Range(ageColumns) |-> Get(row, col)]

\* the record kept for a reference row: the variant's age columns only
GovRecordOf(row, ageColumns) ==
    [col \in Range(ageColumns) |-> normalizeComparableValue(Get(row, col))]

\* a step that counts the keys it sees for the first time
step_CountsNewKeys(acc, row, ageColumns) ==
    LET key == buildRecordKey(row)
    IN  IF key = NoKey THEN acc
        ELSE [dataset |-> MapSet(acc.dataset, key, GovRecordOf(row, ageColumns)),
              count |-> IF key \in DOMAIN acc.dataset THEN acc.count ELSE acc.count + 1]

\* the step callback of Papa.parse, storage.ts:645-658
step(acc, row, ageColumns) ==
    LET key == buildRecordKey(row)
    IN  IF key = NoKey THEN acc
        ELSE [dataset |-> MapSet(acc.dataset, key, GovRecordOf(row, ageColumns)),
              count |-> acc.count + 1]

RECURSIVE ParseRows(_, _, _)
\* (the test on acc.count has TLC compute acc row by row)
ParseRows(acc, rows, ageColumns) ==
    IF rows = <<>> \/ acc.count < 0 THEN acc
    ELSE ParseRows(step(acc, Head(rows), ageColumns), Tail(rows), ageColumns)

\* the value parseGovernmentDataset resolves with when the source parses
parseGovernmentDataset(fileType, rows) ==
    ParseRows([dataset |-> EmptyMap, count |-> 0], rows, AGE_COLUMNS_BY_TYPE[fileType])

----------------------------------------------------------------------------
(* Cells of the reference files and of the uploaded files *)

TDate == <<"1", "-", "5">>
TGoa == <<"G", "o", "a">>
TGoaPadded == <<" ", "g", "o", "a", " ">>
TDistrict == <<"D">>
TDistrictLower == <<"d", " ">>
TPincode == <<"4", "1", " ">>

\* sequences over S of length at most n
SeqUpTo(S, n) == UNION {[1..k -> S] : k \in 0..n}

\* key fields of the reference row that is indexed
RefKeyFields ==
    [date |-> Str(TDate), state |-> Str(TGoa), district |-> Str(TDistrict), pincode |-> Num(41)]

\* cells of a reference row's age columns: the first a number, the second
\* missing from the row, the third (enrollment) a text
RefAges(fileType) ==
    LET cols == AGE_COLUMNS_BY_TYPE[fileType]
    IN  [c \in (Range(cols) \ {cols[2]}) |-> IF c = cols[1] THEN Num(10) ELSE Str(<<" ", "A">>)]

RefRows(fileType) ==
    { RefKeyFields @@ RefAges(fileType),
      [RefKeyFields EXCEPT !.district = Str(<<" ">>)] @@ RefAges(fileType) }

RefFiles(fileType) == SeqUpTo(RefRows(fileType), MaxRefRows)

\* key fields of an uploaded row that spell the indexed key differently
UploadKeyFields ==
    [date |-> Str(TDate \o <<" ">>), state |-> Str(TGoaPadded),
     district |-> Str(TDistrictLower), pincode |-> Str(TPincode)]

\* key fields whose key no index holds
AbsentKeyFields == [UploadKeyFields EXCEPT !.pincode = Num(0)]

\* key fields with no derivable key: one field blank or missing
NoDateFields == [UploadKeyFields EXCEPT !.date = Num(0)]
NoStateFields == [UploadKeyFields EXCEPT !.state = Str(<<" ">>)]
NoDistrictFields == [UploadKeyFields EXCEPT !.district = Str(<<>>)]
NoPincodeFields == [c \in {"date", "state", "district"} |-> UploadKeyFields[c]]

\* an uploaded row with the key fields k and the age cells ages
\* (ages[i] is the cell of the variant's i-th age column, Undefined: no cell)
UploadRow(fileType, k, ages) ==
    LET cols == AGE_COLUMNS_BY_TYPE[fileType]
        owned == {i \in 1..Len(cols) : i <= Len(ages) /\ ages[i] # Undefined}
    IN  k @@ [c \in {cols[i] : i \in owned} |-> ages[CHOOSE i \in owned : cols[i] = c]]

\* rows of a biometric file: every choice of the two age cells under the
\* indexed key, and differing age cells under the other key fields
BiometricRows ==
    { UploadRow("biometric", UploadKeyFields, <<a, b>>) :
        a \in {Undefined, Num(10), Num(12)}, b \in {Undefined, Num(0)} }
    \cup { UploadRow("biometric", k, <<Num(12), Num(0)>>) :
              k \in {AbsentKeyFields, NoDateFields, NoStateFields} }

\* rows of an enrollment file
EnrollmentRows ==
    { UploadRow("enrollment", UploadKeyFields,
                <<Str(<<"1", "0", " ">>), Str(<<" ">>), Str(<<"a", " ">>)>>),
      UploadRow("enrollment", UploadKeyFields, <<Num(10), Num(0), Num(0)>>),
      UploadRow("enrollment", UploadKeyFields, <<Num(12), Undefined, Num(0)>>),
      UploadRow("enrollment", NoDistrictFields, <<Num(12), Num(0), Num(0)>>) }

\* rows of a demographic file
DemographicRows ==
    { UploadRow("demographic", UploadKeyFields, <<Num(10)>>),
      UploadRow("demographic", UploadKeyFields, <<Undefined, Num(0)>>),
      UploadRow("demographic", AbsentKeyFields, <<Num(12), Num(0)>>),
      UploadRow("demographic", NoPincodeFields, <<Num(12), Num(0)>>) }

UploadRows(fileType) ==
    CASE fileType = "biometric" -> BiometricRows
      [] fileType = "enrollment" -> EnrollmentRows
      [] OTHER -> DemographicRows

----------------------------------------------------------------------------
(* Upload handler, storage.ts:703-842 *)

StatusSet == {"Verified", "Mismatch", "NotFound"}

DetailsUnknownType == "Unknown file type; unable to verify against official government database"
DetailsMissingFields == "Missing required fields (date, state, district, pincode)"
DetailsUnavailable == "Official government database unavailable for this file type"
DetailsNotInDatabase == "Record not found in official government database"
DetailsNoColumns == "No comparable age columns found in this record"
DetailsMismatch == "Mismatch in columns: "
DetailsVerified == "Matched with official government records"

DetectFileType_EnrollmentFirst(uploadedColumns) ==
    IF "age_0_5" \in uploadedColumns THEN "enrollment"
    ELSE IF "bio_age_5_17" \in uploadedColumns THEN "biometric"
    ELSE IF "demo_age_5_17" \in uploadedColumns THEN "demographic"
    ELSE "unknown"

\* storage.ts:740-743
DetectFileType(uploadedColumns) ==
    IF "bio_age_5_17" \in uploadedColumns THEN "biometric"
    ELSE IF "age_0_5" \in uploadedColumns THEN "enrollment"
    ELSE IF "demo_age_5_17" \in uploadedColumns THEN "demographic"
    ELSE "unknown"

hasGovData_IgnoresLoaded(fileType, loaded) == isKnownFileType(fileType)

\* storage.ts:745
hasGovData(fileType, loaded) == isKnownFileType(fileType) /\ fileType \in loaded

\* storage.ts:746; null is [null |-> TRUE]
govDataset(fileType, sets) ==
    IF isKnownFileType(fileType) THEN [null |-> FALSE, map |-> sets[fileType]]
    ELSE [null |-> TRUE, map |-> EmptyMap]

\* storage.ts:757-759
columnsToCompare(row, comparableColumns) ==
    SelectSeq(comparableColumns, LAMBDA col : col \in DOMAIN row)

mismatchedColumns_RawUpload(row, govRecord, cols) ==
    SelectSeq(cols, LAMBDA col :
        Get(row, col) # normalizeComparableValue(Get(govRecord, col)))

\* storage.ts:782-787
mismatchedColumns(row, govRecord, cols) ==
    SelectSeq(cols, LAMBDA col :
        normalizeComparableValue(Get(row, col)) # normalizeComparableValue(Get(govRecord, col)))

Verdict(status, text, columns, counter, lookedUp, threw) ==
    [status |-> status, details |-> [text |-> text, columns |-> columns],
     counter |-> counter, lookedUp |-> lookedUp, threw |-> threw]

MatchRow_NoCount(row, key, dataset, cols) ==
    IF dataset.null THEN Verdict("NotFound", "", <<>>, "none", TRUE, TRUE)
    ELSE IF key \notin DOMAIN dataset.map
    THEN Verdict("NotFound", DetailsNotInDatabase, <<>>, "notFound", TRUE, FALSE)
    ELSE IF Len(cols) = 0
    THEN Verdict("NotFound", DetailsNoColumns, <<>>, "none", TRUE, FALSE)
    ELSE LET mm == mismatchedColumns(row, dataset.map[key], cols)
         IN  IF Len(mm) > 0
             THEN Verdict("Mismatch", DetailsMismatch, mm, "mismatch", TRUE, FALSE)
             ELSE Verdict("Verified", DetailsVerified, <<>>, "verified", TRUE, FALSE)

MatchRow_CompareMissing(row, key, dataset, cols) ==
    IF dataset.null THEN Verdict("NotFound", "", <<>>, "none", TRUE, TRUE)
    ELSE IF Len(cols) = 0
    THEN Verdict("NotFound", DetailsNoColumns, <<>>, "notFound", TRUE, FALSE)
    ELSE LET govRecord == IF key \in DOMAIN dataset.map THEN dataset.map[key] ELSE EmptyMap
             mm == mismatchedColumns(row, govRecord, cols)
         IN  IF Len(mm) > 0
             THEN Verdict("Mismatch", DetailsMismatch, mm, "mismatch", TRUE, FALSE)
             ELSE IF key \notin DOMAIN dataset.map
             THEN Verdict("NotFound", DetailsNotInDatabase, <<>>, "notFound", TRUE, FALSE)
             ELSE Verdict("Verified", DetailsVerified, <<>>, "verified", TRUE, FALSE)

\* storage.ts:774-798: the lookup and the column comparison; govDataset.get
\* on null is the one expression of the loop body that can throw
MatchRow(row, key, dataset, cols) ==
    IF dataset.null THEN Verdict("NotFound", "", <<>>, "none", TRUE, TRUE)
    ELSE IF key \notin DOMAIN dataset.map
    THEN Verdict("NotFound", DetailsNotInDatabase, <<>>, "notFound", TRUE, FALSE)
    ELSE IF Len(cols) = 0
    THEN Verdict("NotFound", DetailsNoColumns, <<>>, "notFound", TRUE, FALSE)
    ELSE LET mm == mismatchedColumns(row, dataset.map[key], cols)
         IN  IF Len(mm) > 0
             THEN Verdict("Mismatch", DetailsMismatch, mm, "mismatch", TRUE, FALSE)
             ELSE Verdict("Verified", DetailsVerified, <<>>, "verified", TRUE, FALSE)

VerifyRow_KeyFirst(row, key, fileType, comparableColumns, hasData, dataset) ==
        IF key = NoKey
        THEN Verdict("NotFound", DetailsMissingFields, <<>>, "notFound", FALSE, FALSE)
        ELSE IF ~isKnownFileType(fileType)
        THEN Verdict("NotFound", DetailsUnknownType, <<>>, "notFound", FALSE, FALSE)
        ELSE IF ~hasData \/ dataset.null
        THEN Verdict("NotFound", DetailsUnavailable, <<>>, "notFound", FALSE, FALSE)
        ELSE MatchRow(row, key, dataset, columnsToCompare(row, comparableColumns))

\* storage.ts:761-799: the decision chain of one iteration
VerifyRow(row, key, fileType, comparableColumns, hasData, dataset) ==
        IF ~isKnownFileType(fileType)
        THEN Verdict("NotFound", DetailsUnknownType, <<>>, "notFound", FALSE, FALSE)
        ELSE IF key = NoKey
        THEN Verdict("NotFound", DetailsMissingFields, <<>>, "notFound", FALSE, FALSE)
        ELSE IF ~hasData \/ dataset.null
        THEN Verdict("NotFound", DetailsUnavailable, <<>>, "notFound", FALSE, FALSE)
        ELSE MatchRow(row, key, dataset, columnsToCompare(row, comparableColumns))

\* value || null
OrNull(v) == IF Falsy(v) THEN Null ELSE v

\* storage.ts:801-810
RecordToInsert(row, dateValue, verdict) ==
    [uploadId |-> 0,
     date |-> IF dateValue = <<>> THEN Null ELSE Str(dateValue),
     state |-> OrNull(Get(row, "state")),
     district |-> OrNull(Get(row, "district")),
     pincode |-> IF Falsy(Get(row, "pincode")) THEN Null
                 ELSE Str(JsString(Get(row, "pincode"))),
     status |-> verdict.status,
     details |-> verdict.details,
     originalData |-> row]

\* what the loop did for one row, kept beside the records
TraceOf(row, key, comparableColumns, verdict) ==
    [key |-> key,
     lookedUp |-> verdict.lookedUp,
     compared |-> columnsToCompare(row, comparableColumns)]

Bump_MismatchAsNotFound(n, counter, which) ==
    IF counter = which \/ (counter = "mismatch" /\ which = "notFound") THEN n + 1 ELSE n

Bump(n, counter, which) == IF counter = which THEN n + 1 ELSE n

RECURSIVE VerifyLoop(_, _, _)
\* storage.ts:749-811: the loop over parsedData; a throw leaves the loop
VerifyLoop(acc, rows, ctx) ==
    IF rows = <<>> \/ acc.threw THEN acc
    ELSE LET row == Head(rows)
             dateValue == normalizeDate(Get(row, "date"))
             key == buildRecordKey(row)
             v == VerifyRow(row, key, ctx.fileType, ctx.comparableColumns,
                            ctx.hasGovData, ctx.govDataset)
         IN  IF v.threw THEN [acc EXCEPT !.threw = TRUE]
             ELSE VerifyLoop(
                    [verifiedCount |-> Bump(acc.verifiedCount, v.counter, "verified"),
                     mismatchCount |-> Bump(acc.mismatchCount, v.counter, "mismatch"),
                     notFoundCount |-> Bump(acc.notFoundCount, v.counter, "notFound"),
                     recordsToInsert |-> Append(acc.recordsToInsert, RecordToInsert(row, dateValue, v)),
                     trace |-> Append(acc.trace, TraceOf(row, key, ctx.comparableColumns, v)),
                     threw |-> FALSE],
                    Tail(rows), ctx)

\* storage.ts:739-811: column detection and the verification loop
VerifyData(parsedData, sets, loaded) ==
    LET uploadedColumns == IF parsedData = <<>> THEN {} ELSE DOMAIN parsedData[1]
        fileType == DetectFileType(uploadedColumns)
        ctx == [fileType |-> fileType,
                comparableColumns |-> getComparableColumns(uploadedColumns, fileType),
                hasGovData |-> hasGovData(fileType, loaded),
                govDataset |-> govDataset(fileType, sets)]
        out == VerifyLoop([verifiedCount |-> 0, mismatchCount |-> 0, notFoundCount |-> 0,
                           recordsToInsert |-> <<>>, trace |-> <<>>, threw |-> FALSE],
                          parsedData, ctx)
    IN  [fileType |-> fileType, uploadedColumns |-> uploadedColumns, out |-> out]

\* storage.ts:831: the number of records the handler keeps for insertion
RecordCap == 50000

Idle(res) == [pc |-> "idle", res |-> res, records |-> <<>>]

\* rows parsed by the upload requests handled so far
RowsSoFar == Len(records) + Len(req.records)

Serving == loadIdx > Len(KNOWN_FILE_TYPES)

----------------------------------------------------------------------------
(* The server of storage.ts: start-up, then requests *)

Init ==
    /\ govDataSets = [ft \in KnownFileType |-> EmptyMap]
    /\ govDataLoaded = {}
    /\ loadIdx = 1
    /\ uploads = <<>>
    /\ records = <<>>
    /\ req = Idle(0)
    /\ trace = <<>>
    /\ govDataMap = {}
    /\ keyRows = <<>>
    /\ keyOut = <<>>
    /\ cmpIn = <<>>
    /\ cmpOut = <<>>
    /\ detectIn = <<>>
    /\ detectOut = ""
    /\ charts = <<>>
    /\ resolveIn = <<>>
    /\ resolveOut = <<>>
    /\ reqFile = <<>>
    /\ chartsReq = <<>>
    /\ reply = <<>>
    /\ unzip = <<>>
    /\ govParse = <<>>
    /\ stored = <<>>

\* storage.ts:676-680: no source is resolved for the variant
LoadNoSource ==
    /\ ~Serving
    /\ loadIdx' = loadIdx + 1
    /\ UNCHANGED <<govDataSets, govDataLoaded, uploads, records, req, trace,
                   govDataMap, keyRows, keyOut, cmpIn, cmpOut,
                   detectIn, detectOut, charts, resolveIn, resolveOut, reqFile,
                   chartsReq, reply, unzip, govParse, stored>>

\* storage.ts:682-686: the source parses; the dataset replaces the variant's map
LoadParsed ==
    /\ ~Serving
    /\ \E rows \in RefFiles(KNOWN_FILE_TYPES[loadIdx]) :
          LET fileType == KNOWN_FILE_TYPES[loadIdx]
              result == parseGovernmentDataset(fileType, rows)
          IN  /\ govDataSets' = [govDataSets EXCEPT ![fileType] = result.dataset]
              /\ govDataLoaded' = govDataLoaded \cup {fileType}
    /\ loadIdx' = loadIdx + 1
    /\ UNCHANGED <<uploads, records, req, trace, govDataMap, keyRows, keyOut, cmpIn, cmpOut,
                   detectIn, detectOut, charts, resolveIn, resolveOut, reqFile,
                   chartsReq, reply, unzip, govParse, stored>>

\* a loader whose catch gives up on the variants that are left
LoadFailed_Aborts ==
    /\ ~Serving
    /\ loadIdx' = Len(KNOWN_FILE_TYPES) + 1
    /\ UNCHANGED <<govDataSets, govDataLoaded, uploads, records, req, trace,
                   govDataMap, keyRows, keyOut, cmpIn, cmpOut,
                   detectIn, detectOut, charts, resolveIn, resolveOut, reqFile,
                   chartsReq, reply, unzip, govParse, stored>>

\* a parser that fills the variant's own map, so that the rows read before
\* the failure stay in the index
LoadFailed_KeepsRows ==
    /\ ~Serving
    /\ \E rows \in RefFiles(KNOWN_FILE_TYPES[loadIdx]) :
          LET fileType == KNOWN_FILE_TYPES[loadIdx]
          IN  govDataSets' = [govDataSets EXCEPT
                                ![fileType] = parseGovernmentDataset(fileType, rows).dataset]
    /\ loadIdx' = loadIdx + 1
    /\ UNCHANGED <<govDataLoaded, uploads, records, req, trace,
                   govDataMap, keyRows, keyOut, cmpIn, cmpOut,
                   detectIn, detectOut, charts, resolveIn, resolveOut, reqFile,
                   chartsReq, reply, unzip, govParse, stored>>

\* storage.ts:687-689: parseGovernmentDataset rejects; the catch logs and goes on
LoadFailed ==
    /\ ~Serving
    /\ loadIdx' = loadIdx + 1
    /\ UNCHANGED <<govDataSets, govDataLoaded, uploads, records, req, trace,
                   govDataMap, keyRows, keyOut, cmpIn, cmpOut,
                   detectIn, detectOut, charts, resolveIn, resolveOut, reqFile,
                   chartsReq, reply, unzip, govParse, stored>>

\* an upload handler that drops the mark of the variant it matched against
PostUpload_Unloads(parsedData) ==
    /\ req.pc = "idle"
    /\ LET v == VerifyData(parsedData, govDataSets, govDataLoaded)
       IN  /\ uploads' = Append(uploads,
                  [id |-> Len(uploads) + 1,
                   totalRecords |-> Len(parsedData),
                   verifiedCount |-> v.out.verifiedCount,
                   mismatchCount |-> v.out.mismatchCount,
                   notFoundCount |-> v.out.notFoundCount,
                   fileType |-> v.fileType,
                   columns |-> v.uploadedColumns])
           /\ govDataLoaded' = govDataLoaded \ {v.fileType}
    /\ req' = Idle(201)
    /\ UNCHANGED <<govDataSets, loadIdx, records, trace,
                   govDataMap, keyRows, keyOut, cmpIn, cmpOut,
                   detectIn, detectOut, charts, resolveIn, resolveOut>>

\* storage.ts:739-823: the handler on the parsed rows, up to the await of
\* storage.createUpload
PostUpload(parsedData) ==
    /\ req.pc = "idle"
    /\ \E v \in {VerifyData(parsedData, govDataSets, govDataLoaded)} :
          LET id == Len(uploads) + 1
              finalRecords == [i \in 1..Len(v.out.recordsToInsert) |->
                                 [v.out.recordsToInsert[i] EXCEPT !.uploadId = id]]
              processedRecords == IF Len(finalRecords) > RecordCap
                                  THEN SubSeq(finalRecords, 1, RecordCap)
                                  ELSE finalRecords
          IN  IF v.out.threw
              THEN /\ req' = Idle(500)
                   /\ UNCHANGED <<uploads, trace>>
              ELSE /\ uploads' = Append(uploads,
                         [id |-> id,
                          totalRecords |-> Len(parsedData),
                          verifiedCount |-> v.out.verifiedCount,
                          mismatchCount |-> v.out.mismatchCount,
                          notFoundCount |-> v.out.notFoundCount,
                          fileType |-> v.fileType,
                          columns |-> v.uploadedColumns])
                   /\ req' = [pc |-> "createRecords", res |-> 0, records |-> processedRecords]
                   /\ trace' = [i \in 1..Len(parsedData) |->
                                  [row |-> parsedData[i]] @@ v.out.trace[i]]
    /\ UNCHANGED <<govDataSets, govDataLoaded, loadIdx, records,
                   govDataMap, keyRows, keyOut, cmpIn, cmpOut,
                   detectIn, detectOut, charts, resolveIn, resolveOut>>

\* an upload handler that is installed before loadGovernmentData is awaited
UploadRequest_WhileLoading ==
    /\ Len(uploads) < MaxUploads
    /\ \E family \in KnownFileType :
       \E parsedData \in SeqUpTo(UploadRows(family), MaxRows - RowsSoFar) :
          PostUpload(parsedData)
    /\ UNCHANGED <<reqFile, chartsReq, reply, unzip, govParse, stored>>

\* storage.ts:703-823: a request with a .csv or .xlsx file of one family's rows
UploadRequest ==
    /\ Serving
    /\ Len(uploads) < MaxUploads
    /\ \E family \in KnownFileType :
       \E parsedData \in SeqUpTo(UploadRows(family), MaxRows - RowsSoFar) :
          PostUpload(parsedData)
    /\ UNCHANGED <<reqFile, chartsReq, reply, unzip, govParse, stored>>

\* storage.ts:835-837 and storage.ts:35-48: createRecords, then the 201 response
UploadCreateRecords ==
    /\ req.pc = "createRecords"
    /\ records' = records \o req.records
    /\ req' = Idle(201)
    /\ UNCHANGED <<govDataSets, govDataLoaded, loadIdx, uploads, trace,
                   govDataMap, keyRows, keyOut, cmpIn, cmpOut,
                   detectIn, detectOut, charts, resolveIn, resolveOut, reqFile,
                   chartsReq, reply, unzip, govParse, stored>>

Next ==
    \/ LoadNoSource
    \/ LoadParsed
    \/ LoadFailed
    \/ UploadRequest
    \/ UploadCreateRecords

Spec == Init /\ [][Next]_vars

----------------------------------------------------------------------------
(* The last upload handled: its row in "uploads", its records, its loop *)

LastId == Len(uploads)

LastUpload == uploads[LastId]

LastRecords ==
    IF req.pc = "createRecords" THEN req.records
    ELSE SelectSeq(records, LAMBDA r : r.uploadId = LastId)

Handled == uploads # <<>>

CountOf(status) == Cardinality({i \in 1..Len(LastRecords) : LastRecords[i].status = status})

RowOf(i) == trace[i].row
\* the value of the loop's local "key" for row i (storage.ts:756)
KeyOf(i) == trace[i].key
KnownVariant == isKnownFileType(LastUpload.fileType)
MarkedLoaded == LastUpload.fileType \in govDataLoaded
IndexOfVariant == govDataSets[LastUpload.fileType]
InIndex(i) == KeyOf(i) \in DOMAIN IndexOfVariant

\* declared columns of the variant that the file has and row i owns
ComparedOf(i) ==
    SelectSeq(AGE_COLUMNS_BY_TYPE[LastUpload.fileType],
              LAMBDA c : c \in LastUpload.columns /\ c \in DOMAIN RowOf(i))

\* compared columns of row i whose comparable value differs from the reference's
DifferingOf(i) ==
    SelectSeq(ComparedOf(i), LAMBDA c :
        normalizeComparableValue(RowOf(i)[c])
            # normalizeComparableValue(IndexOfVariant[KeyOf(i)][c]))

Rows == 1..Len(trace)

\* C2: a row of a known variant with a derivable key that is absent from the
\* variant's loaded index is NotFound, never Mismatch, whatever its
\* comparable columns hold.
C2_AbsentKeyNeverMismatch ==
    Handled /\ KnownVariant /\ MarkedLoaded =>
        \A i \in Rows :
            KeyOf(i) # NoKey /\ ~InIndex(i) => LastRecords[i].status = "NotFound"

\* a row whose age cells differ from the one indexed record, under another key
C2_Witness ==
    /\ Handled /\ KnownVariant /\ MarkedLoaded
    /\ DOMAIN IndexOfVariant # {}
    /\ \E i \in Rows :
          /\ KeyOf(i) # NoKey /\ ~InIndex(i)
          /\ Len(ComparedOf(i)) = 2
          /\ LastRecords[i].status = "NotFound"

\* the reason and the status the decision order gives row i
ExpectedDetails(i) ==
    IF ~KnownVariant THEN DetailsUnknownType
    ELSE IF KeyOf(i) = NoKey THEN DetailsMissingFields
    ELSE IF ~MarkedLoaded THEN DetailsUnavailable
    ELSE IF ~InIndex(i) THEN DetailsNotInDatabase
    ELSE IF Len(ComparedOf(i)) = 0 THEN DetailsNoColumns
    ELSE IF Len(DifferingOf(i)) > 0 THEN DetailsMismatch
    ELSE DetailsVerified

ExpectedStatus(details) ==
    CASE details = DetailsMismatch -> "Mismatch"
      [] details = DetailsVerified -> "Verified"
      [] OTHER -> "NotFound"

\* C4: the verdict follows the seven rules in their order, the first rule
\* that applies giving the reason: unknown variant, no key, index not
\* available, key absent, no comparable column, some value differs, Verified.
C4_DecisionOrder ==
    Handled =>
        \A i \in Rows :
            /\ LastRecords[i].details.text = ExpectedDetails(i)
            /\ LastRecords[i].status = ExpectedStatus(LastRecords[i].details.text)

\* a row without a key in a file of unknown variant reports the unknown variant
C4_Witness ==
    /\ Handled /\ ~KnownVariant
    /\ \E i \in Rows :
          /\ KeyOf(i) = NoKey
          /\ LastRecords[i].details.text = DetailsUnknownType

\* C6 as stated: a variant that is not marked loaded, or whose index has no
\* entry, gives every row with a derivable key NotFound with the reason
\* "reference data unavailable".
C6_AsStated ==
    Handled /\ KnownVariant /\ (~MarkedLoaded \/ DOMAIN IndexOfVariant = {}) =>
        \A i \in Rows :
            KeyOf(i) # NoKey =>
                /\ LastRecords[i].status = "NotFound"
                /\ LastRecords[i].details.text = DetailsUnavailable

\* C6 amended: a variant that is not marked loaded gives every row with a
\* derivable key NotFound with the reason "reference data unavailable"; a
\* variant that is marked loaded with an index of no entries gives it
\* NotFound with the reason "not found in the database".
C6_UnavailableOrEmpty ==
    Handled /\ KnownVariant =>
        \A i \in Rows :
            KeyOf(i) # NoKey =>
                /\ ~MarkedLoaded =>
                      /\ LastRecords[i].status = "NotFound"
                      /\ LastRecords[i].details.text = DetailsUnavailable
                /\ MarkedLoaded /\ DOMAIN IndexOfVariant = {} =>
                      /\ LastRecords[i].status = "NotFound"
                      /\ LastRecords[i].details.text = DetailsNotInDatabase

C6_Witness ==
    /\ Handled /\ KnownVariant /\ ~MarkedLoaded
    /\ \E i \in Rows :
          /\ KeyOf(i) # NoKey
          /\ LastRecords[i].details.text = DetailsUnavailable

\* C7 as stated: with the biometric index not loaded, every row of a
\* biometric upload is NotFound with the reason "reference data unavailable".
C7_AsStated ==
    Handled /\ LastUpload.fileType = "biometric" /\ "biometric" \notin govDataLoaded =>
        \A i \in Rows :
            /\ LastRecords[i].status = "NotFound"
            /\ LastRecords[i].details.text = DetailsUnavailable

\* C7 amended: with the biometric index not loaded, every row of a
\* biometric upload is NotFound, with the reason "reference data
\* unavailable" when its key can be derived and "missing required fields"
\* when it cannot, whatever the enrollment and demographic indices hold.
C7_BiometricUnavailable ==
    Handled /\ LastUpload.fileType = "biometric" /\ "biometric" \notin govDataLoaded =>
        \A i \in Rows :
            /\ LastRecords[i].status = "NotFound"
            /\ LastRecords[i].details.text =
                  IF KeyOf(i) = NoKey THEN DetailsMissingFields ELSE DetailsUnavailable

\* the biometric row spells the key that the two other, loaded, indices hold
C7_Witness ==
    /\ Handled /\ LastUpload.fileType = "biometric" /\ "biometric" \notin govDataLoaded
    /\ govDataLoaded = {"enrollment", "demographic"}
    /\ \E i \in Rows :
          /\ KeyOf(i) \in DOMAIN govDataSets["enrollment"]
          /\ LastRecords[i].details.text = DetailsUnavailable

\* a cell that is absent, null or a text of spaces only
BlankCell(v) ==
    \/ v.t \in {"undefined", "null"}
    \/ v.t = "string" /\ \A k \in 1..Len(v.s) : v.s[k] = " "

\* a key field of the row is absent or blank once normalised (normalizeDate
\* also turns the number 0 into the empty text)
SomeKeyFieldBlank(row) ==
    \/ BlankCell(Get(row, "date")) \/ Get(row, "date") = Num(0)
    \/ BlankCell(Get(row, "state"))
    \/ BlankCell(Get(row, "district"))
    \/ BlankCell(Get(row, "pincode"))

\* C8: buildRecordKey returns null exactly when one of date, state, district
\* and pincode is absent or blank after normalisation, and a row of a known
\* variant without a key is NotFound with the reason "missing required
\* fields", the index not being looked up.
C8_NoKeyMissingFields ==
    Handled =>
        \A i \in Rows :
            /\ (trace[i].key = NoKey) <=> SomeKeyFieldBlank(RowOf(i))
            /\ KnownVariant /\ trace[i].key = NoKey =>
                  /\ LastRecords[i].status = "NotFound"
                  /\ LastRecords[i].details.text = DetailsMissingFields
                  /\ ~trace[i].lookedUp

\* a row without a pincode in a file whose variant is loaded
C8_Witness ==
    /\ Handled /\ KnownVariant /\ MarkedLoaded
    /\ \E i \in Rows :
          /\ "pincode" \notin DOMAIN RowOf(i)
          /\ trace[i].key = NoKey
          /\ LastRecords[i].details.text = DetailsMissingFields

\* C9: for a row of a loaded variant whose key is indexed and which has a
\* compared column, the status is Verified exactly when every compared column
\* has the reference's comparable value, Mismatch otherwise, and a Mismatch
\* lists exactly the differing compared columns in the declared order.
C9_VerifiedIffAllEqual ==
    Handled /\ KnownVariant /\ MarkedLoaded =>
        \A i \in Rows :
            KeyOf(i) # NoKey /\ InIndex(i) /\ Len(ComparedOf(i)) > 0 =>
                /\ trace[i].compared = ComparedOf(i)
                /\ LastRecords[i].status =
                      IF Len(DifferingOf(i)) = 0 THEN "Verified" ELSE "Mismatch"
                /\ LastRecords[i].details.columns = DifferingOf(i)

\* a Verified row with a text cell "10 " against the reference's 10, and a
\* Mismatch row listing two of its three compared columns in order
C9_Witness ==
    /\ Handled /\ Len(trace) = 2
    /\ LastRecords[1].status = "Verified"
    /\ Get(RowOf(1), "age_0_5") = Str(<<"1", "0", " ">>)
    /\ LastRecords[2].status = "Mismatch"
    /\ LastRecords[2].details.columns = <<"age_5_17", "age_18_greater">>

----------------------------------------------------------------------------
(* buildRecordKey on two rows *)

KeyFieldNames == {"date", "state", "district", "pincode"}

\* cells of a key field: none, a text, and the text in another letter case
\* or with a space before it
KeyCells == {Undefined, Str(<<"a">>), Str(<<"A">>), Str(<<" ", "a">>)}

KeyRowsIn ==
    UNION {[D -> KeyCells \ {Undefined}] : D \in SUBSET KeyFieldNames}

InitKey ==
    /\ keyRows \in KeyRowsIn \X KeyRowsIn
    /\ keyOut = <<>>
    /\ govDataSets = [ft \in KnownFileType |-> EmptyMap]
    /\ govDataLoaded = {}
    /\ loadIdx = 1
    /\ uploads = <<>>
    /\ records = <<>>
    /\ req = Idle(0)
    /\ trace = <<>>
    /\ govDataMap = {}
    /\ cmpIn = <<>>
    /\ cmpOut = <<>>
    /\ detectIn = <<>>
    /\ detectOut = ""
    /\ charts = <<>>
    /\ resolveIn = <<>>
    /\ resolveOut = <<>>
    /\ reqFile = <<>>
    /\ chartsReq = <<>>
    /\ reply = <<>>
    /\ unzip = <<>>
    /\ govParse = <<>>
    /\ stored = <<>>

\* the loader and the upload loop call buildRecordKey on each row
BuildKeys ==
    /\ keyOut = <<>>
    /\ keyOut' = <<buildRecordKey(keyRows[1]), buildRecordKey(keyRows[2])>>
    /\ UNCHANGED <<govDataSets, govDataLoaded, loadIdx, uploads, records, req, trace,
                   govDataMap, keyRows, cmpIn, cmpOut,
                   detectIn, detectOut, charts, resolveIn, resolveOut, reqFile,
                   chartsReq, reply, unzip, govParse, stored>>

NextKey == BuildKeys

SpecKey == InitKey /\ [][NextKey]_vars

\* two cells are the same text up to surrounding spaces
SameUpToSpace(u, v) ==
    IF u.t = "string" /\ v.t = "string" THEN Trim(u.s) = Trim(v.s) ELSE u = v

\* two cells are the same text up to letter case and surrounding spaces
SameUpToCaseAndSpace(u, v) ==
    IF u.t = "string" /\ v.t = "string"
    THEN ToLowerCase(Trim(u.s)) = ToLowerCase(Trim(v.s))
    ELSE u = v

\* C5 as stated: two rows whose date, state, district and pincode are
\* pairwise equal up to letter case and surrounding spaces get the same key.
C5_AsStated ==
    keyOut # <<>> =>
        ((\A f \in KeyFieldNames :
              SameUpToCaseAndSpace(Get(keyRows[1], f), Get(keyRows[2], f)))
            => keyOut[1] = keyOut[2])

\* C5 amended: two rows whose state and district are pairwise equal up to
\* letter case and surrounding spaces, and whose date and pincode are
\* pairwise equal up to surrounding spaces, get the same key (or both none).
C5_KeyInsensitive ==
    keyOut # <<>> =>
        ((/\ \A f \in {"state", "district"} :
                SameUpToCaseAndSpace(Get(keyRows[1], f), Get(keyRows[2], f))
          /\ \A f \in {"date", "pincode"} :
                SameUpToSpace(Get(keyRows[1], f), Get(keyRows[2], f)))
            => keyOut[1] = keyOut[2])

\* the four fields are spelled differently in the two rows, and the key is one
C5_Witness ==
    /\ keyOut # <<>>
    /\ keyRows[1] = [date |-> Str(<<"a">>), state |-> Str(<<"A">>),
                     district |-> Str(<<"a">>), pincode |-> Str(<<" ", "a">>)]
    /\ keyRows[2] = [date |-> Str(<<" ", "a">>), state |-> Str(<<" ", "a">>),
                     district |-> Str(<<"A">>), pincode |-> Str(<<"a">>)]
    /\ keyOut[1] = keyOut[2]
    /\ keyOut[1] # NoKey

----------------------------------------------------------------------------
(* The matcher's value comparison on a reference cell and an uploaded cell *)

CmpChars == {"a", "A", " ", "0", "1"}

CmpCells ==
    {Undefined, Null, Num(0), Num(1), Num(10)}
        \cup {Str(x) : x \in SeqUpTo(CmpChars, MaxLen)}

InitCmp ==
    /\ cmpIn \in CmpCells \X CmpCells
    /\ cmpOut = <<>>
    /\ govDataSets = [ft \in KnownFileType |-> EmptyMap]
    /\ govDataLoaded = {}
    /\ loadIdx = 1
    /\ uploads = <<>>
    /\ records = <<>>
    /\ req = Idle(0)
    /\ trace = <<>>
    /\ govDataMap = {}
    /\ keyRows = <<>>
    /\ keyOut = <<>>
    /\ detectIn = <<>>
    /\ detectOut = ""
    /\ charts = <<>>
    /\ resolveIn = <<>>
    /\ resolveOut = <<>>
    /\ reqFile = <<>>
    /\ chartsReq = <<>>
    /\ reply = <<>>
    /\ unzip = <<>>
    /\ govParse = <<>>
    /\ stored = <<>>

\* storage.ts:652-656 keeps the reference cell cmpIn[1] of one age column;
\* storage.ts:782-787 compares the uploaded cell cmpIn[2] with what was kept
CompareCells ==
    /\ cmpOut = <<>>
    /\ LET col == "age_0_5"
           govRecord == GovRecordOf([c \in {col} |-> cmpIn[1]], <<col>>)
       IN  cmpOut' = [stored |-> govRecord[col],
                      equal |-> mismatchedColumns([c \in {col} |-> cmpIn[2]],
                                                  govRecord, <<col>>) = <<>>]
    /\ UNCHANGED <<govDataSets, govDataLoaded, loadIdx, uploads, records, req, trace,
                   govDataMap, keyRows, keyOut, cmpIn,
                   detectIn, detectOut, charts, resolveIn, resolveOut, reqFile,
                   chartsReq, reply, unzip, govParse, stored>>

NextCmp == CompareCells

SpecCmp == InitCmp /\ [][NextCmp]_vars

\* the cell is a number or a text that reads as a decimal numeral
DenotesNumber(v) == v.t = "number" \/ (v.t = "string" /\ IsNumeral(Trim(v.s)))

NumberOf(v) == IF v.t = "number" THEN v.n ELSE StrToNum(Trim(v.s))

PlainText(v) == v.t = "string" /\ ~BlankCell(v) /\ ~DenotesNumber(v)

\* C10: the matcher takes two cells as equal exactly when both are blank or
\* absent, or both denote the same number, or both are non-numeric texts
\* equal after trimming and lower-casing; a blank is never equal to zero;
\* the index keeps the reference cell under the same rule that the matcher
\* applies to both sides.
C10_ComparableValues ==
    cmpOut # <<>> =>
        LET ref == cmpIn[1]
            up == cmpIn[2]
        IN  /\ cmpOut.equal <=>
                  \/ BlankCell(ref) /\ BlankCell(up)
                  \/ DenotesNumber(ref) /\ DenotesNumber(up) /\ NumberOf(ref) = NumberOf(up)
                  \/ PlainText(ref) /\ PlainText(up)
                        /\ ToLowerCase(Trim(ref.s)) = ToLowerCase(Trim(up.s))
            /\ BlankCell(ref) /\ DenotesNumber(up) /\ NumberOf(up) = 0 => ~cmpOut.equal
            /\ BlankCell(up) /\ DenotesNumber(ref) /\ NumberOf(ref) = 0 => ~cmpOut.equal
            /\ cmpOut.stored = normalizeComparableValue(ref)
            /\ cmpOut.equal <=>
                  normalizeComparableValue(up) = normalizeComparableValue(ref)

\* the number 10 in the reference equals the uploaded text "10"
C10_Witness ==
    /\ cmpOut # <<>>
    /\ cmpIn = <<Num(10), Str(<<"1", "0">>)>>
    /\ cmpOut.equal

----------------------------------------------------------------------------
(* The server of routes.ts: a generated key set and a verification loop
   that draws Math.random() for each row *)

TDistrictN == <<"D", "i", "s", "t", "r", "i", "c", "t", " ">>

\* routes.ts:36-43: the state names (one of the 28 is kept)
MockStates == {TGoa}

\* routes.ts:49-50: values that Math.floor(100 + Math.random() * 800) and
\* Math.floor(100 + Math.random() * 899) can take
PincodePrefixes == {100, 899}
PincodeSuffixes == {100, 998}

\* routes.ts:50
MockPincode(prefix, suffix) == NumToStr(prefix) \o NumToStr(suffix)

\* routes.ts:56
MockKey(state, i, pincode) ==
    ToLowerCase(state) \o <<"|">> \o ToLowerCase(TDistrictN \o NumToStr(i))
        \o <<"|">> \o pincode

\* routes.ts:32-63: loadGovernmentData, called by registerRoutes before the
\* handlers are installed
RoutesLoad ==
    /\ govDataMap = {}
    /\ \E pins \in [MockStates \X (0..(MockDistricts - 1)) ->
                       {MockPincode(a, b) : a \in PincodePrefixes, b \in PincodeSuffixes}] :
          govDataMap' = {MockKey(e[1], e[2], pins[e]) : e \in DOMAIN pins}
    /\ UNCHANGED <<govDataSets, govDataLoaded, loadIdx, uploads, records, req, trace,
                   keyRows, keyOut, cmpIn, cmpOut,
                   detectIn, detectOut, charts, resolveIn, resolveOut, reqFile,
                   chartsReq, reply, unzip, govParse, stored>>

\* String(value || '')
StringOrEmpty(v) == IF Falsy(v) THEN <<>> ELSE JsString(v)

\* values of Math.random(), in tenths, on each side of the 0.3 and 0.6 thresholds
RandomTenths == {1, 5, 9}

\* routes.ts:124-151: the verdict of one row when Math.random() returns rand/10
RoutesVerifyRow(row, rand, keys) ==
    LET state == ToLowerCase(Trim(StringOrEmpty(Get(row, "state"))))
        district == ToLowerCase(Trim(StringOrEmpty(Get(row, "district"))))
        pincode == Trim(StringOrEmpty(Get(row, "pincode")))
        key == state \o <<"|">> \o district \o <<"|">> \o pincode
    IN  IF state # <<>> /\ (district # <<>> \/ pincode # <<>>)
        THEN IF key \in keys \/ rand > 6
             THEN [status |-> "Verified", details |-> "Matched with government records",
                   counter |-> "verified"]
             ELSE IF rand > 3
             THEN [status |-> "Mismatch", details |-> "Data exists but values mismatch",
                   counter |-> "mismatch"]
             ELSE [status |-> "NotFound", details |-> "Record not found in government database",
                   counter |-> "notFound"]
        ELSE [status |-> "NotFound",
              details |-> "Missing required fields (state, district, pincode)",
              counter |-> "notFound"]

\* routes.ts:153-160
RoutesRecord(row, verdict) ==
    [uploadId |-> 0,
     date |-> IF Falsy(Get(row, "date")) THEN Null ELSE Str(JsString(Get(row, "date"))),
     state |-> OrNull(Get(row, "state")),
     district |-> OrNull(Get(row, "district")),
     pincode |-> IF Falsy(Get(row, "pincode")) THEN Null
                 ELSE Str(JsString(Get(row, "pincode"))),
     status |-> verdict.status,
     details |-> verdict.details,
     originalData |-> row]

RECURSIVE RoutesVerifyLoop(_, _, _, _)
\* routes.ts:118-161: the loop over parsedData; rands[i] is what
\* Math.random() returns for row i
RoutesVerifyLoop(acc, rows, rands, keys) ==
    IF rows = <<>> THEN acc
    ELSE LET row == Head(rows)
             v == RoutesVerifyRow(row, Head(rands), keys)
         IN  RoutesVerifyLoop(
                [verifiedCount |-> Bump(acc.verifiedCount, v.counter, "verified"),
                 mismatchCount |-> Bump(acc.mismatchCount, v.counter, "mismatch"),
                 notFoundCount |-> Bump(acc.notFoundCount, v.counter, "notFound"),
                 recordsToInsert |-> Append(acc.recordsToInsert, RoutesRecord(row, v))],
                Tail(rows), Tail(rands), keys)

\* rows of the files uploaded to the routes.ts server
RoutesRows ==
    { [state |-> Str(TGoaPadded), district |-> Str(TDistrictN \o <<"0">>), pincode |-> p] :
        p \in {Num(100100), Num(899998)} }
    \cup { [district |-> Str(TDistrictN \o <<"0">>), pincode |-> Num(100100)],
           [state |-> Str(TGoa)] }

\* routes.ts:75-183: the handler up to the await of storage.createRecords
RoutesUploadRequest ==
    /\ govDataMap # {}
    /\ req.pc = "idle"
    /\ Len(uploads) < MaxRuns
    /\ \E parsedData \in SeqUpTo(RoutesRows, MaxRows - RowsSoFar) :
       \E rands \in [1..Len(parsedData) -> RandomTenths] :
       \E out \in {RoutesVerifyLoop([verifiedCount |-> 0, mismatchCount |-> 0,
                                     notFoundCount |-> 0, recordsToInsert |-> <<>>],
                                    parsedData, rands, govDataMap)} :
          LET id == Len(uploads) + 1
              uploadedColumns == IF parsedData = <<>> THEN {} ELSE DOMAIN parsedData[1]
              finalRecords == [i \in 1..Len(out.recordsToInsert) |->
                                 [out.recordsToInsert[i] EXCEPT !.uploadId = id]]
              processedRecords == IF Len(finalRecords) > RecordCap
                                  THEN SubSeq(finalRecords, 1, RecordCap)
                                  ELSE finalRecords
          IN  /\ uploads' = Append(uploads,
                     [id |-> id,
                      totalRecords |-> Len(parsedData),
                      verifiedCount |-> out.verifiedCount,
                      mismatchCount |-> out.mismatchCount,
                      notFoundCount |-> out.notFoundCount,
                      fileType |-> DetectFileType(uploadedColumns),
                      columns |-> uploadedColumns])
              /\ req' = [pc |-> "createRecords", res |-> 0, records |-> processedRecords]
    /\ UNCHANGED <<govDataSets, govDataLoaded, loadIdx, records, trace,
                   govDataMap, keyRows, keyOut, cmpIn, cmpOut,
                   detectIn, detectOut, charts, resolveIn, resolveOut, reqFile,
                   chartsReq, reply, unzip, govParse, stored>>

NextRoutes ==
    \/ RoutesLoad
    \/ RoutesUploadRequest
    \/ UploadCreateRecords

SpecRoutes == Init /\ [][NextRoutes]_vars

\* the records stored for an upload, without the upload's id
StoredFor(id) ==
    LET mine == SelectSeq(records, LAMBDA r : r.uploadId = id)
    IN  [i \in 1..Len(mine) |-> [mine[i] EXCEPT !.uploadId = 0]]

InputOf(id) == [i \in 1..Len(StoredFor(id)) |-> StoredFor(id)[i].originalData]

\* C3: verifying the same rows twice, the variant and the reference data
\* being the same, gives every row the same status and the same reason both
\* times, and so the same verified, mismatch and notFound counts.
C3_Deterministic ==
    req.pc = "idle" =>
        \A a, b \in 1..Len(uploads) :
            InputOf(a) = InputOf(b) /\ uploads[a].fileType = uploads[b].fileType =>
                /\ StoredFor(a) = StoredFor(b)
                /\ uploads[a].verifiedCount = uploads[b].verifiedCount
                /\ uploads[a].mismatchCount = uploads[b].mismatchCount
                /\ uploads[a].notFoundCount = uploads[b].notFoundCount

----------------------------------------------------------------------------
(* File type detection on a header set, storage.ts:740-743 *)

\* headers of an uploaded file: the three markers, other age columns and
\* columns that are no age column
DetectColumns ==
    {"bio_age_5_17", "bio_age_17_", "age_0_5", "age_5_17", "demo_age_5_17",
     "demo_age_17_", "date", "state"}

InitDetect ==
    /\ detectIn \in SUBSET DetectColumns
    /\ detectOut = ""
    /\ govDataSets = [ft \in KnownFileType |-> EmptyMap]
    /\ govDataLoaded = {}
    /\ loadIdx = 1
    /\ uploads = <<>>
    /\ records = <<>>
    /\ req = Idle(0)
    /\ trace = <<>>
    /\ govDataMap = {}
    /\ keyRows = <<>>
    /\ keyOut = <<>>
    /\ cmpIn = <<>>
    /\ cmpOut = <<>>
    /\ charts = <<>>
    /\ resolveIn = <<>>
    /\ resolveOut = <<>>
    /\ reqFile = <<>>
    /\ chartsReq = <<>>
    /\ reply = <<>>
    /\ unzip = <<>>
    /\ govParse = <<>>
    /\ stored = <<>>

\* storage.ts:740-743: uploadedColumns are the keys of the first parsed row
Detect ==
    /\ detectOut = ""
    /\ detectOut' = DetectFileType(detectIn)
    /\ UNCHANGED <<govDataSets, govDataLoaded, loadIdx, uploads, records, req, trace,
                   govDataMap, keyRows, keyOut, cmpIn, cmpOut,
                   detectIn, charts, resolveIn, resolveOut, reqFile,
                   chartsReq, reply, unzip, govParse, stored>>

NextDetect == Detect

SpecDetect == InitDetect /\ [][NextDetect]_vars

\* the marker column of each variant, in the order of KNOWN_FILE_TYPES
MarkerOrder == <<"bio_age_5_17", "age_0_5", "demo_age_5_17">>

----------------------------------------------------------------------------
(* Charts handler, storage.ts:914-1012 *)

\* the characters of the column names of the uploaded files
ColumnText(col) ==
    CASE col = "date" -> <<"d", "a", "t", "e">>
      [] col = "state" -> <<"s", "t", "a", "t", "e">>
      [] col = "district" -> <<"d", "i", "s", "t", "r", "i", "c", "t">>
      [] col = "pincode" -> <<"p", "i", "n", "c", "o", "d", "e">>
      [] col = "bio_age_5_17" -> <<"b", "i", "o", "_", "a", "g", "e", "_", "5", "_", "1", "7">>
      [] col = "bio_age_17_" -> <<"b", "i", "o", "_", "a", "g", "e", "_", "1", "7", "_">>
      [] col = "age_0_5" -> <<"a", "g", "e", "_", "0", "_", "5">>
      [] col = "age_5_17" -> <<"a", "g", "e", "_", "5", "_", "1", "7">>
      [] col = "age_18_greater" -> <<"a", "g", "e", "_", "1", "8", "_", "g", "r", "e", "a", "t", "e", "r">>
      [] col = "demo_age_5_17" -> <<"d", "e", "m", "o", "_", "a", "g", "e", "_", "5", "_", "1", "7">>
      [] col = "demo_age_17_" -> <<"d", "e", "m", "o", "_", "a", "g", "e", "_", "1", "7", "_">>
      [] col = "village" -> <<"v", "i", "l", "l", "a", "g", "e">>

\* String.prototype.includes
Includes(text, pat) ==
    \E i \in 1..(Len(text) - Len(pat) + 1) : SubSeq(text, i, i + Len(pat) - 1) = pat

IsAgeColumn_StartsWith(col) ==
    SubSeq(ColumnText(col), 1, 3) = <<"a", "g", "e">>

\* storage.ts:934-936: the filter of uploadedColumns
IsAgeColumn(col) ==
    \/ Includes(ColumnText(col), <<"a", "g", "e">>)
    \/ Includes(ColumnText(col), <<"b", "i", "o", "_", "a", "g", "e">>)
    \/ Includes(ColumnText(col), <<"d", "e", "m", "o", "_", "a", "g", "e">>)

\* storage.ts:980-991
formatColumnName(col) ==
    CASE col = "bio_age_5_17" -> "Age 5-17 (Biometric)"
      [] col = "bio_age_17_" -> "Age 17+ (Biometric)"
      [] col = "age_0_5" -> "Age 0-5"
      [] col = "age_5_17" -> "Age 5-17"
      [] col = "age_18_greater" -> "Age 18+"
      [] col = "demo_age_5_17" -> "Age 5-17 (Demographic)"
      [] col = "demo_age_17_" -> "Age 17+ (Demographic)"
      [] OTHER -> col


\* value || 'Unknown'
OrUnknown(v) == IF Falsy(v) THEN Str(<<"U", "n", "k", "n", "o", "w", "n">>) ELSE v

\* value || 0
OrZero(v) == IF Falsy(v) THEN Num(0) ELSE v

\* a + b of JavaScript on numbers and texts: the sum of two numbers, the
\* concatenation of the two texts otherwise
JsAdd(a, b) ==
    IF a.t = "number" /\ b.t = "number" THEN Num(a.n + b.n)
    ELSE Str(JsString(a) \o JsString(b))

\* position of the key in a Map kept as the sequence of its entries, 0: none
MapPos(m, k) ==
    IF \E i \in 1..Len(m) : m[i].key = k
    THEN CHOOSE i \in 1..Len(m) : m[i].key = k
    ELSE 0

\* storage.ts:946-950: the state's counters after one record
CountState(stateMap, state, status) ==
    LET m == IF MapPos(stateMap, state) = 0
             THEN Append(stateMap, [key |-> state,
                                    val |-> [verified |-> 0, mismatch |-> 0, notFound |-> 0]])
             ELSE stateMap
        p == MapPos(m, state)
    IN  [m EXCEPT ![p].val =
            IF status = "Verified" THEN [@ EXCEPT !.verified = @ + 1]
            ELSE IF status = "Mismatch" THEN [@ EXCEPT !.mismatch = @ + 1]
            ELSE [@ EXCEPT !.notFound = @ + 1]]

\* storage.ts:953-956: the district's counters after one record
CountDistrict(districtMap, district, status) ==
    LET m == IF MapPos(districtMap, district) = 0
             THEN Append(districtMap, [key |-> district, val |-> [total |-> 0, verified |-> 0]])
             ELSE districtMap
        p == MapPos(m, district)
    IN  [m EXCEPT ![p].val =
            [total |-> @.total + 1,
             verified |-> IF status = "Verified" THEN @.verified + 1 ELSE @.verified]]

\* storage.ts:964-967: the date's counters after one record
CountDate(dateMap, date, status) ==
    LET m == IF MapPos(dateMap, date) = 0
             THEN Append(dateMap, [key |-> date, val |-> [count |-> 0, verified |-> 0]])
             ELSE dateMap
        p == MapPos(m, date)
    IN  [m EXCEPT ![p].val =
            [count |-> @.count + 1,
             verified |-> IF status = "Verified" THEN @.verified + 1 ELSE @.verified]]

\* storage.ts:959-961: ageSums[col] += (r.originalData?.[col] || 0)
\* (@@ has TLC build the function at once, not when it is first read)
SumAges(ageSums, r) ==
    EmptyMap @@ [col \in DOMAIN ageSums |-> JsAdd(ageSums[col], OrZero(Get(r.originalData, col)))]

RECURSIVE ChartsLoop(_, _)
\* storage.ts:940-968: the loop over recordsList
\* (the test on acc.stateMap has TLC compute acc record by record)
ChartsLoop(acc, recordsList) ==
    IF recordsList = <<>> \/ Len(acc.stateMap) < 0 THEN acc
    ELSE LET r == Head(recordsList)
         IN  ChartsLoop(
                [stateMap |-> CountState(acc.stateMap, OrUnknown(r.state), r.status),
                 districtMap |-> CountDistrict(acc.districtMap, OrUnknown(r.district), r.status),
                 dateMap |-> CountDate(acc.dateMap, OrUnknown(r.date), r.status),
                 ageSums |-> SumAges(acc.ageSums, r)],
                Tail(recordsList))

\* Array.prototype.slice(0, n)
Slice(q, n) == SubSeq(q, 1, IF Len(q) < n THEN Len(q) ELSE n)

\* a comparison function that returns the difference of two numbers read
\* off its arguments (k; nan when the number is NaN): a NaN result counts as 0
CmpKey(a, b) == IF a.nan \/ b.nan THEN 0 ELSE a.k - b.k

\* x put into the sorted sequence q before the first entry that the
\* comparison puts after it
InsertSorted(q, x) ==
    LET later == {i \in 1..Len(q) : CmpKey(q[i], x) > 0}
        p == IF later = {} THEN Len(q) + 1
             ELSE CHOOSE i \in later : \A j \in later : i <= j
    IN  SubSeq(q, 1, p - 1) \o <<x>> \o SubSeq(q, p, Len(q))

RECURSIVE SortFrom(_, _)
\* the entries of q after the first Len(sorted) put, one by one, into sorted
SortFrom(sorted, q) ==
    IF Len(sorted) = Len(q) THEN sorted
    ELSE SortFrom(InsertSorted(sorted, q[Len(sorted) + 1]), q)

\* Array.prototype.sort with such a comparison function (a stable sort) on
\* the entries [item, k, nan]
SortByKey(q) == SortFrom(<<>>, q)

RECURSIVE SplitDash(_)
\* String.prototype.split('-')
SplitDash(x) ==
    IF \E i \in 1..Len(x) : x[i] = "-"
    THEN LET p == CHOOSE i \in 1..Len(x) : x[i] = "-" /\ \A j \in 1..(i - 1) : x[j] # "-"
         IN  <<SubSeq(x, 1, p - 1)>> \o SplitDash(SubSeq(x, p + 1, Len(x)))
    ELSE <<x>>

\* Number(text): the numeral's value, 0 for a blank text, NaN otherwise
JsNumber(x) ==
    IF Trim(x) = <<>> THEN [nan |-> FALSE, n |-> 0]
    ELSE IF IsNumeral(Trim(x)) THEN [nan |-> FALSE, n |-> StrToNum(Trim(x))]
    ELSE [nan |-> TRUE, n |-> 0]

\* new Date(y, m0, d).getTime(), counted in days: a year of 0..99 is taken
\* as 1900 + y, a month index beyond December runs into the next years and
\* a day beyond the month's end into the next months
\* (DaysBeforeMonth: the days of a common year before the month)
DateTimeOf(y, m0, d) ==
    LET yy == (IF y \in 0..99 THEN 1900 + y ELSE y) + (m0 \div 12)
        mn == m0 % 12
        IsLeap(x) == (x % 4 = 0 /\ x % 100 # 0) \/ x % 400 = 0
        DaysBeforeMonth == <<0, 31, 59, 90, 120, 151, 181, 212, 243, 273, 304, 334>>
    IN  365 * yy + ((yy - 1) \div 4) - ((yy - 1) \div 100) + ((yy - 1) \div 400)
          + DaysBeforeMonth[mn + 1] + (IF IsLeap(yy) /\ mn >= 2 THEN 1 ELSE 0) + d - 1

\* storage.ts:1001-1003: the time the comparison reads off a date text
DateTime(date) ==
    LET parts == SplitDash(date)
        num == [i \in 1..Len(parts) |-> JsNumber(parts[i])]
    IN  IF Len(parts) < 3 \/ num[1].nan \/ num[2].nan \/ num[3].nan
        THEN [nan |-> TRUE, k |-> 0]
        ELSE [nan |-> FALSE, k |-> DateTimeOf(num[3].n, num[2].n - 1, num[1].n)]

\* storage.ts:972, 978, 1004: the ends of the three slices
StateSliceEnd == 10
DistrictSliceEnd == 10
TrendSliceEnd == 20

stateDistribution_NoSlice(stateMap) ==
    [i \in 1..Len(stateMap) |-> [state |-> stateMap[i].key] @@ stateMap[i].val]

\* storage.ts:970-972
stateDistribution(stateMap) ==
    Slice([i \in 1..Len(stateMap) |-> [state |-> stateMap[i].key] @@ stateMap[i].val],
          StateSliceEnd)

\* storage.ts:974-977: the entries of districtAnalysis before the sort; the
\* rate is kept as the fraction num / den
DistrictEntries(districtMap) ==
    [i \in 1..Len(districtMap) |->
        [district |-> districtMap[i].key,
         total |-> districtMap[i].val.total,
         verifiedRate |-> IF districtMap[i].val.total > 0
                          THEN [num |-> districtMap[i].val.verified * 100,
                                den |-> districtMap[i].val.total]
                          ELSE [num |-> 0, den |-> 1]]]

\* the items of the entries sorted by b.k - a.k turned into a.k - b.k
SortedItems(q) == LET sorted == SortByKey(q) IN [i \in 1..Len(sorted) |-> sorted[i].item]

districtAnalysis_SliceFirst(districtMap) ==
    LET entries == Slice(DistrictEntries(districtMap), DistrictSliceEnd)
    IN  SortedItems([i \in 1..Len(entries) |->
                        [item |-> entries[i], nan |-> FALSE, k |-> 0 - entries[i].total]])

\* storage.ts:974-978: sort((a, b) => b.total - a.total).slice(0, 10)
districtAnalysis(districtMap) ==
    LET entries == DistrictEntries(districtMap)
    IN  Slice(SortedItems([i \in 1..Len(entries) |->
                              [item |-> entries[i], nan |-> FALSE, k |-> 0 - entries[i].total]]),
              DistrictSliceEnd)

\* storage.ts:998-999
TrendEntries(dateMap) ==
    [i \in 1..Len(dateMap) |-> [date |-> dateMap[i].key] @@ dateMap[i].val]

temporalTrends_SliceFirst(dateMap) ==
    LET entries == Slice(TrendEntries(dateMap), TrendSliceEnd)
    IN  SortedItems([i \in 1..Len(entries) |->
                        [item |-> entries[i]] @@ DateTime(entries[i].date.s)])

\* storage.ts:998-1004: sorted by the dates' times, then slice(0, 20)
temporalTrends(dateMap) ==
    LET entries == TrendEntries(dateMap)
    IN  Slice(SortedItems([i \in 1..Len(entries) |->
                              [item |-> entries[i]] @@ DateTime(entries[i].date.s)]),
              TrendSliceEnd)

\* storage.ts:927-1011: the response for the records and the columns read
ChartsOf(recordsList, uploadedColumns) ==
    LET ageColumns == {col \in uploadedColumns : IsAgeColumn(col)}
        acc == ChartsLoop([stateMap |-> <<>>, districtMap |-> <<>>, dateMap |-> <<>>,
                           ageSums |-> [col \in ageColumns |-> Num(0)]],
                          recordsList)
    IN  [stateDistribution |-> stateDistribution(acc.stateMap),
         districtAnalysis |-> districtAnalysis(acc.districtMap),
         ageDistribution |-> [col \in ageColumns |->
                                 [name |-> formatColumnName(col), value |-> acc.ageSums[col]]],
         temporalTrends |-> temporalTrends(acc.dateMap)]

----------------------------------------------------------------------------
(* The files whose charts are requested *)

\* four files: every row its own state, district and date; few states, one
\* district of many rows after eleven of one row, dates from the latest to
\* the earliest; a dozen states, scattered dates, a text age cell and a
\* column "village"; a file whose first row has no marker column
Shapes == <<"distinct", "cycle", "mixed", "headless">>

\* the cell of row i of the file in the column, Undefined: no cell
\* (DateOf(j): the j-th date, day-month-year, 01-05-2023 .. 28-05-2023,
\* then 01-06-2023 and on)
ChartsCell(shape, i, col) ==
    LET DateOf(j) ==
            LET day == NumToStr(((j - 1) % 28) + 1)
                month == NumToStr(5 + ((j - 1) \div 28))
            IN  (IF Len(day) < 2 THEN <<"0">> ELSE <<>>) \o day \o <<"-">>
                  \o (IF Len(month) < 2 THEN <<"0">> ELSE <<>>) \o month
                  \o <<"-", "2", "0", "2", "3">>
        DateIdx ==
            CASE shape = "distinct" -> i
              [] shape = "cycle" -> 30 - i
              [] shape = "mixed" -> 1 + ((7 * i) % 29)
              [] OTHER -> IF i <= 5 THEN 2 ELSE 1
        StateIdx ==
            CASE shape = "cycle" -> i % 3
              [] shape = "mixed" -> i % 12
              [] OTHER -> i
        DistrictIdx ==
            CASE shape = "cycle" -> IF i < 12 THEN i ELSE 12
              [] shape = "mixed" -> (i * i) % 5
              [] shape = "headless" -> 1 + (i % 2)
              [] OTHER -> i
    IN
    CASE col = "date" -> Str(DateOf(DateIdx))
      [] col = "state" -> IF shape = "cycle" /\ i % 3 = 0 THEN Undefined
                          ELSE Str(<<"s">> \o NumToStr(StateIdx))
      [] col = "district" -> Str(<<"d">> \o NumToStr(DistrictIdx))
      [] col = "pincode" -> Num(100 + i)
      [] col = "age_0_5" -> IF shape = "headless" /\ i = 1 THEN Undefined
                            ELSE IF i % 2 = 0 THEN Num(10) ELSE Num(12)
      [] col = "age_5_17" ->
            CASE shape = "distinct" -> Num(i)
              [] shape = "cycle" -> IF i % 3 = 0 THEN Undefined ELSE Num(1)
              [] shape = "mixed" -> IF i % 4 = 1 THEN Str(<<"n", "/", "a">>) ELSE Num(2)
              [] OTHER -> Num(1)
      [] OTHER -> IF shape = "mixed" THEN Str(<<"x">>) ELSE Undefined

ChartsColumns == {"date", "state", "district", "pincode", "age_0_5", "age_5_17", "village"}

ChartsRow(shape, i) ==
    [col \in {c \in ChartsColumns : ChartsCell(shape, i, c) # Undefined} |->
        ChartsCell(shape, i, col)]

\* the first n rows of the file
Batch(shape, n) == [i \in 1..n |-> ChartsRow(shape, i)]

\* the enrollment reference file: of the first eight rows of each of the
\* first three files two of three, each with age_0_5 = 10
ChartsRefFile ==
    LET all == [k \in 1..24 |->
                  [age_0_5 |-> Num(10)] @@ ChartsRow(Shapes[((k - 1) \div 8) + 1], ((k - 1) % 8) + 1)]
    IN  SelectSeq(all, LAMBDA r : r.pincode.n % 3 # 1)

\* the server after loadGovernmentData found no biometric and no
\* demographic source and parsed ChartsRefFile for enrollment
InitCharts ==
    /\ govDataSets = [ft \in KnownFileType |->
                        IF ft = "enrollment"
                        THEN parseGovernmentDataset("enrollment", ChartsRefFile).dataset
                        ELSE EmptyMap]
    /\ govDataLoaded = {"enrollment"}
    /\ loadIdx = Len(KNOWN_FILE_TYPES) + 1
    /\ uploads = <<>>
    /\ records = <<>>
    /\ req = Idle(0)
    /\ trace = <<>>
    /\ govDataMap = {}
    /\ keyRows = <<>>
    /\ keyOut = <<>>
    /\ cmpIn = <<>>
    /\ cmpOut = <<>>
    /\ detectIn = <<>>
    /\ detectOut = ""
    /\ charts = <<>>
    /\ resolveIn = <<>>
    /\ resolveOut = <<>>
    /\ reqFile = <<>>
    /\ chartsReq = <<>>
    /\ reply = <<>>
    /\ unzip = <<>>
    /\ govParse = <<>>
    /\ stored = <<>>

\* storage.ts:703-823: the first upload request, with one of the files
ChartsUploadRequest ==
    /\ Serving
    /\ uploads = <<>>
    /\ \E k \in 1..Len(Shapes) : \E n \in 0..MaxBatch : PostUpload(Batch(Shapes[k], n))
    /\ UNCHANGED <<reqFile, chartsReq, reply, unzip, govParse, stored>>

\* storage.ts:914-1012: a charts request; uploadId 0 is a query without
\* uploadId, and the first of getUploads() is the upload created last
GetCharts ==
    /\ Serving
    /\ \E uploadId \in 0..(Len(uploads) + 1) :
          LET id == IF uploadId # 0 THEN uploadId ELSE Len(uploads)
              recordsList == SelectSeq(records, LAMBDA r : r.uploadId = id)
              known == id \in 1..Len(uploads)
              uploadedColumns == IF known THEN uploads[id].columns ELSE {}
          IN  \E c \in {ChartsOf(recordsList, uploadedColumns)} :
                 charts' = <<[recordsList |-> recordsList,
                              uploadedColumns |-> uploadedColumns,
                              fileType |-> IF known THEN uploads[id].fileType ELSE "unknown",
                              response |-> c]>>
    /\ UNCHANGED <<govDataSets, govDataLoaded, loadIdx, uploads, records, req, trace,
                   govDataMap, keyRows, keyOut, cmpIn, cmpOut,
                   detectIn, detectOut, resolveIn, resolveOut, reqFile,
                   chartsReq, reply, unzip, govParse, stored>>

NextCharts ==
    \/ ChartsUploadRequest
    \/ UploadCreateRecords
    \/ GetCharts

SpecCharts == InitCharts /\ [][NextCharts]_vars

----------------------------------------------------------------------------
(* The charts of a batch: the records read by the last charts request *)

Charted == charts # <<>>

BatchOf == charts[1].recordsList

\* the state, the district and the date a record is counted under
StateKeys == [i \in 1..Len(BatchOf) |-> OrUnknown(BatchOf[i].state)]
DistrictKeys == [i \in 1..Len(BatchOf) |-> OrUnknown(BatchOf[i].district)]
DateKeys == [i \in 1..Len(BatchOf) |-> OrUnknown(BatchOf[i].date)]

\* positions at which a key appears for the first time
FirstIdx(keys) == {i \in 1..Len(keys) : \A j \in 1..(i - 1) : keys[j] # keys[i]}

\* the position at which the key appears first
FirstPos(keys, k) == CHOOSE i \in FirstIdx(keys) : keys[i] = k

\* the k-th smallest member of a set of numbers
Kth(S, k) == CHOOSE x \in S : Cardinality({y \in S : y < x}) = k - 1

\* number of records under the key, and of those with the status
CountKey(keys, k) == Cardinality({i \in 1..Len(keys) : keys[i] = k})
CountKeyStatus(keys, k, status) ==
    Cardinality({i \in 1..Len(keys) : keys[i] = k /\ BatchOf[i].status = status})

AtMost(n, m) == IF n < m THEN n ELSE m

\* C12: the state distribution has at most 10 entries, which are the first
\* 10 distinct states in the order of their first appearance in the batch,
\* each with the numbers of the batch's records of that state that are
\* Verified, Mismatch and NotFound.
C12_StateDistribution ==
    Charted =>
        LET out == charts[1].response.stateDistribution
        IN  /\ Len(out) <= 10
            /\ Len(out) = AtMost(Cardinality(FirstIdx(StateKeys)), 10)
            /\ \A k \in 1..Len(out) :
                  /\ out[k].state = StateKeys[Kth(FirstIdx(StateKeys), k)]
                  /\ out[k].verified = CountKeyStatus(StateKeys, out[k].state, "Verified")
                  /\ out[k].mismatch = CountKeyStatus(StateKeys, out[k].state, "Mismatch")
                  /\ out[k].notFound = CountKeyStatus(StateKeys, out[k].state, "NotFound")

\* a batch of twelve states, some with Verified and Mismatch records
C12_Witness ==
    /\ Charted
    /\ Cardinality(FirstIdx(StateKeys)) = 12
    /\ Len(charts[1].response.stateDistribution) = 10
    /\ \E k \in 1..10 : charts[1].response.stateDistribution[k].verified > 0
    /\ \E k \in 1..10 : charts[1].response.stateDistribution[k].mismatch > 0

\* entry a comes before entry b: more records, or as many and seen earlier
Before(keys, a, b) ==
    \/ CountKey(keys, a) > CountKey(keys, b)
    \/ CountKey(keys, a) = CountKey(keys, b) /\ FirstPos(keys, a) < FirstPos(keys, b)

\* C13: the district analysis has at most 10 entries, sorted by total from
\* the largest down, districts of equal total in the order of their first
\* appearance, and they are the 10 districts that come first in that order.
C13_DistrictAnalysis ==
    Charted =>
        LET out == charts[1].response.districtAnalysis
            named == {out[k].district : k \in 1..Len(out)}
            all == {DistrictKeys[i] : i \in 1..Len(DistrictKeys)}
        IN  /\ Len(out) <= 10
            /\ Len(out) = AtMost(Cardinality(all), 10)
            /\ named \subseteq all
            /\ \A k \in 1..Len(out) : out[k].total = CountKey(DistrictKeys, out[k].district)
            /\ \A a, b \in 1..Len(out) :
                  a < b => Before(DistrictKeys, out[a].district, out[b].district)
            /\ \A d \in all \ named : \A k \in 1..Len(out) :
                  Before(DistrictKeys, out[k].district, d)

\* twelve districts, the one that appears last having the most records
C13_Witness ==
    /\ Charted
    /\ Cardinality({DistrictKeys[i] : i \in 1..Len(DistrictKeys)}) = 12
    /\ Len(charts[1].response.districtAnalysis) = 10
    /\ charts[1].response.districtAnalysis[1].district = DistrictKeys[Len(DistrictKeys)]
    /\ charts[1].response.districtAnalysis[1].total > 1
    /\ charts[1].response.districtAnalysis[2].district = DistrictKeys[1]

\* the text is dd-mm-yyyy in digits
IsDayMonthYear(x) ==
    /\ Len(x) = 10
    /\ x[3] = "-" /\ x[6] = "-"
    /\ \A i \in {1, 2, 4, 5, 7, 8, 9, 10} : IsDigit(x[i])

\* a number that grows with the calendar date of a dd-mm-yyyy text
Calendar(x) ==
    10000 * StrToNum(SubSeq(x, 7, 10)) + 100 * StrToNum(SubSeq(x, 4, 5))
        + StrToNum(SubSeq(x, 1, 2))

\* C14: when every date of the batch is in day-month-year form,
\* temporalTrends has one entry for each distinct date, with the number of
\* records of that date and the number of those that are Verified, in
\* ascending chronological order, cut to the first 20 dates of that order.
C14_TemporalTrends ==
    Charted /\ (\A i \in 1..Len(BatchOf) :
                   BatchOf[i].date.t = "string" /\ IsDayMonthYear(BatchOf[i].date.s)) =>
        LET out == charts[1].response.temporalTrends
            named == {out[k].date : k \in 1..Len(out)}
            all == {DateKeys[i] : i \in 1..Len(DateKeys)}
        IN  /\ Len(out) = AtMost(Cardinality(all), 20)
            /\ named \subseteq all
            /\ \A k \in 1..Len(out) :
                  /\ out[k].count = CountKey(DateKeys, out[k].date)
                  /\ out[k].verified = CountKeyStatus(DateKeys, out[k].date, "Verified")
            /\ \A a, b \in 1..Len(out) :
                  a < b => Calendar(out[a].date.s) < Calendar(out[b].date.s)
            /\ \A d \in all \ named : \A k \in 1..Len(out) :
                  Calendar(out[k].date.s) < Calendar(d.s)

\* more than 20 dates, uploaded from the latest to the earliest, some in June
C14_Witness ==
    /\ Charted
    /\ Cardinality({DateKeys[i] : i \in 1..Len(DateKeys)}) > 20
    /\ Len(charts[1].response.temporalTrends) = 20
    /\ charts[1].response.temporalTrends[1].date = DateKeys[Len(DateKeys)]
    /\ DateKeys[1] = Str(<<"0", "1", "-", "0", "6", "-", "2", "0", "2", "3">>)
    /\ \E k \in 1..20 : charts[1].response.temporalTrends[k].verified > 0

RECURSIVE SumOf(_)
\* the sum of a sequence of numbers
SumOf(q) == IF q = <<>> THEN 0 ELSE Head(q) + SumOf(Tail(q))

\* what a record adds to the column's sum: its cell when that is a number
NumericPart(r, col) ==
    LET cell == Get(r.originalData, col) IN IF cell.t = "number" THEN cell.n ELSE 0

\* C15: each value of ageDistribution is a number, the sum over the batch's
\* records of the column's cell, a record whose cell is absent or not a
\* number adding zero.
C15_NumericSums ==
    Charted =>
        \A col \in DOMAIN charts[1].response.ageDistribution :
            charts[1].response.ageDistribution[col].value
                = Num(SumOf([i \in 1..Len(BatchOf) |-> NumericPart(BatchOf[i], col)]))

----------------------------------------------------------------------------
(* The summary stored with each upload *)

\* the verdict records of the upload: those handed to createRecords, stored or not yet
RecordsOfUpload(id) ==
    IF req.pc = "createRecords" /\ id = LastId THEN req.records
    ELSE SelectSeq(records, LAMBDA r : r.uploadId = id)

CountIn(rs, status) == Cardinality({i \in 1..Len(rs) : rs[i].status = status})

\* C17: for every upload, the stored verifiedCount, mismatchCount and
\* notFoundCount add up to the stored totalRecords, which is the number of
\* parsed rows, and each count is the number of rows the loop gave that status.
C17_SummaryCounts ==
    \A id \in 1..Len(uploads) :
        LET u == uploads[id]
            rs == RecordsOfUpload(id)
        IN  /\ u.verifiedCount + u.mismatchCount + u.notFoundCount = u.totalRecords
            /\ u.totalRecords = Len(rs)
            /\ id = LastId => u.totalRecords = Len(trace)
            /\ u.verifiedCount = CountIn(rs, "Verified")
            /\ u.mismatchCount = CountIn(rs, "Mismatch")
            /\ u.notFoundCount = CountIn(rs, "NotFound")

\* an upload of two rows, one Verified and one Mismatch, stored
C17_Witness ==
    /\ req.pc = "idle"
    /\ Len(uploads) = 1
    /\ uploads[1].totalRecords = 2
    /\ uploads[1].verifiedCount = 1
    /\ uploads[1].mismatchCount = 1
    /\ Len(records) = 2

----------------------------------------------------------------------------
(* The upload handler from the request's file on, storage.ts:703-842 *)

\* String.prototype.endsWith
EndsWith(text, suffix) ==
    /\ Len(text) >= Len(suffix)
    /\ SubSeq(text, Len(text) - Len(suffix) + 1, Len(text)) = suffix

\* fileName.match(/\.xlsx?$/)
MatchesXlsx(fileName) ==
    \/ EndsWith(fileName, <<".", "x", "l", "s">>)
    \/ EndsWith(fileName, <<".", "x", "l", "s", "x">>)

\* the parser that always returns rows: none for a file it cannot read
ParseFile_EmptyOnError(file) ==
    [threw |-> FALSE, data |-> IF file.readable THEN file.rows ELSE <<>>]

\* storage.ts:714-734: Papa.parse or XLSX.read and sheet_to_json on the
\* file's buffer: the rows, or an exception
ParseFile(file) ==
    IF file.readable THEN [threw |-> FALSE, data |-> file.rows]
    ELSE [threw |-> TRUE, data |-> <<>>]

\* res.status(status).json({ message }) before anything is stored
Reject(status) ==
    /\ req' = Idle(status)
    /\ UNCHANGED <<govDataSets, govDataLoaded, loadIdx, uploads, records, trace,
                   govDataMap, keyRows, keyOut, cmpIn, cmpOut,
                   detectIn, detectOut, charts, resolveIn, resolveOut>>

\* originalname of the files sent: a.csv, a.xlsx, a.xls, a.txt, a.CSV,
\* a.csv.zip and csv
FileNames ==
    {<<"a", ".", "c", "s", "v">>, <<"a", ".", "x", "l", "s", "x">>,
     <<"a", ".", "x", "l", "s">>, <<"a", ".", "t", "x", "t">>,
     <<"a", ".", "C", "S", "V">>, <<"a", ".", "c", "s", "v", ".", "z", "i", "p">>,
     <<"c", "s", "v">>}

\* what the parser would make of the file's buffer: rows, or nothing it can read
FileContents ==
    {[readable |-> FALSE, rows |-> <<>>]}
        \cup {[readable |-> TRUE, rows |-> Batch("mixed", n)] : n \in 0..MaxRows}

\* req.file: absent (multer found no "file" part), or a name with a buffer
RequestFiles ==
    {[present |-> FALSE, originalname |-> <<>>, readable |-> FALSE, rows |-> <<>>]}
        \cup {[present |-> TRUE, originalname |-> name,
               readable |-> c.readable, rows |-> c.rows] : name \in FileNames, c \in FileContents}

\* storage.ts:703-823 and 838-841: an upload request, up to the response or
\* to the await of storage.createUpload
UploadFile ==
    /\ Serving
    /\ req.pc = "idle"
    /\ Len(uploads) <= MaxUploads
    /\ \E file \in RequestFiles :
          /\ reqFile' = <<file>>
          /\ IF ~file.present THEN Reject(400)
             ELSE IF EndsWith(file.originalname, <<".", "c", "s", "v">>)
                     \/ MatchesXlsx(file.originalname)
                  THEN \E parsed \in {ParseFile(file)} :
                          IF parsed.threw THEN Reject(500) ELSE PostUpload(parsed.data)
                  ELSE Reject(400)
    /\ UNCHANGED <<chartsReq, reply, unzip, govParse, stored>>

NextFiles ==
    \/ UploadFile
    \/ UploadCreateRecords

SpecFiles == InitCharts /\ [][NextFiles]_vars

\* the part of the name after its last dot; the whole name when it has none
RECURSIVE Extension(_)
Extension(name) ==
    IF name = <<>> \/ name[Len(name)] = "." THEN <<>>
    ELSE IF \A i \in 1..Len(name) : name[i] # "." THEN name
    ELSE Append(Extension(SubSeq(name, 1, Len(name) - 1)), name[Len(name)])

\* the file is missing, or has an unsupported extension, or makes the parser throw
Unusable(file) ==
    \/ ~file.present
    \/ ~(\E i \in 1..Len(file.originalname) : file.originalname[i] = ".")
    \/ Extension(file.originalname) \notin {<<"c", "s", "v">>, <<"x", "l", "s">>, <<"x", "l", "s", "x">>}
    \/ ~file.readable

\* C18: an upload request whose file is missing, has an unsupported
\* extension or makes the parser throw is answered with 400 or 500, and
\* stores neither an upload nor verdict records.
C18_FailedUploadStoresNothing ==
    [][req.pc = "idle" /\ reqFile' # <<>> /\ Unusable(reqFile'[1]) =>
          /\ req'.pc = "idle"
          /\ req'.res \in {400, 500}
          /\ uploads' = uploads
          /\ records' = records]_vars

\* a spreadsheet the parser cannot read, sent after an upload was stored:
\* the answer is 500 and the tables hold the first upload only
C18_Witness ==
    /\ reqFile # <<>>
    /\ reqFile[1].present
    /\ MatchesXlsx(reqFile[1].originalname)
    /\ ~reqFile[1].readable
    /\ req = Idle(500)
    /\ Len(uploads) = 1
    /\ Len(records) = 2
    /\ \A i \in 1..2 : records[i].uploadId = 1

----------------------------------------------------------------------------
(* loadGovernmentData, storage.ts:672-691 *)

\* storage.ts:675-690: one turn of the loop over KNOWN_FILE_TYPES
NextLoad ==
    \/ LoadNoSource
    \/ LoadParsed
    \/ LoadFailed

\* the server of storage.ts where every await of the loop settles: the
\* source is parsed or the parse rejects
SpecLoad == Init /\ [][Next]_vars /\ WF_vars(NextLoad)

\* the variant the loop is at
Loading == KNOWN_FILE_TYPES[loadIdx]

\* C19: whatever happens to one variant's load (no source, or a failure),
\* the loop goes on to the next variant and leaves the other variants'
\* index and loaded mark as they were; a variant that is marked loaded has
\* the whole index parsed from its source; and the loop comes to its end
\* (loadGovernmentData resolves) when every variant has been attempted.
C19_LoadsAreIndependent ==
    /\ [][~Serving =>
             /\ loadIdx' = loadIdx + 1
             /\ \A ft \in KnownFileType \ {Loading} :
                   /\ govDataSets'[ft] = govDataSets[ft]
                   /\ (ft \in govDataLoaded') = (ft \in govDataLoaded)
             /\ Loading \in govDataLoaded' =>
                   \E rows \in RefFiles(Loading) :
                      govDataSets'[Loading] = parseGovernmentDataset(Loading, rows).dataset]_vars
    /\ <>Serving

\* the first variant was not loaded, the two after it were, with their indices
C19_Witness ==
    /\ Serving
    /\ govDataLoaded = {"enrollment", "demographic"}
    /\ govDataSets["biometric"] = EmptyMap
    /\ govDataSets["enrollment"] # EmptyMap
    /\ govDataSets["demographic"] # EmptyMap

----------------------------------------------------------------------------
(* The source of a variant's reference data, storage.ts:562-604 *)

\* String.prototype.startsWith
StartsWith(text, prefix) ==
    /\ Len(text) >= Len(prefix)
    /\ SubSeq(text, 1, Len(prefix)) = prefix

\* storage.ts:487-491
GOV_FILE_PREFIXES ==
    [biometric |-> <<<<"a", "p", "i", "_", "d", "a", "t", "a", "_", "a", "a", "d", "h", "a", "r", "_", "b", "i", "o", "m", "e", "t", "r", "i", "c">>,
                     <<"g", "o", "v", "_", "b", "i", "o", "m", "e", "t", "r", "i", "c">>>>,
     enrollment |-> <<<<"a", "p", "i", "_", "d", "a", "t", "a", "_", "a", "a", "d", "h", "a", "r", "_", "e", "n", "r", "o", "l", "m", "e", "n", "t">>,
                      <<"g", "o", "v", "_", "e", "n", "r", "o", "l", "l", "m", "e", "n", "t">>,
                      <<"g", "o", "v", "_", "e", "n", "r", "o", "l", "m", "e", "n", "t">>>>,
     demographic |-> <<<<"a", "p", "i", "_", "d", "a", "t", "a", "_", "a", "a", "d", "h", "a", "r", "_", "d", "e", "m", "o", "g", "r", "a", "p", "h", "i", "c">>,
                       <<"g", "o", "v", "_", "d", "e", "m", "o", "g", "r", "a", "p", "h", "i", "c">>>>]

\* storage.ts:495-502: the variant's entry of the archive
DEFAULT_GOV_ZIP_ENTRIES ==
    [biometric |-> "UIDAI-Verifier/attached_assets/api_data_aadhar_biometric_1500000_1861108_1768659323892.csv",
     enrollment |-> "UIDAI-Verifier/attached_assets/api_data_aadhar_enrolment_1000000_1006029_1768659323870.csv",
     demographic |-> "UIDAI-Verifier/attached_assets/api_data_aadhar_demographic_2000000_2071700_1768659323892.csv"]

\* the source returned: a file at a path (the explicit path, or a
\* directory joined with a file name), an entry of the archive, or null
Source(kind, path, entry) == [kind |-> kind, path |-> path, entry |-> entry]

\* storage.ts:562-573: the first entry of the directory that ends with
\* ".csv" and starts with one of the prefixes, joined to the directory;
\* null (here <<>>) when there is none or readdirSync throws
findFileByPrefix(dirPath, prefixes, fs) ==
    IF ~fs.listing[dirPath].readable THEN <<>>
    ELSE LET files == fs.listing[dirPath].files
             hits == {i \in 1..Len(files) :
                         /\ EndsWith(files[i], <<".", "c", "s", "v">>)
                         /\ \E k \in 1..Len(prefixes) : StartsWith(files[i], prefixes[k])}
         IN  IF hits = {} THEN <<>>
             ELSE <<dirPath, files[CHOOSE i \in hits : \A j \in hits : i <= j]>>

RECURSIVE SearchIn(_, _, _)
\* storage.ts:588-591: the loop over searchDirs, left at the first match
SearchIn(searchDirs, fileType, fs) ==
    IF searchDirs = <<>> THEN <<>>
    ELSE LET match == findFileByPrefix(Head(searchDirs), GOV_FILE_PREFIXES[fileType], fs)
         IN  IF match # <<>> THEN match ELSE SearchIn(Tail(searchDirs), fileType, fs)

\* storage.ts:581-586: GOV_DATA_DIR when it is set, then the three
\* directories under the working directory
SearchDirs(fs) ==
    SelectSeq(<<"GOV_DATA_DIR", "attached_assets", "server/data", "data">>,
              LAMBDA dir : dir # "GOV_DATA_DIR" \/ ~Falsy(fs.dataDir))

\* a resolver that looks for the archive before the directories
resolveGovDataSource_ZipFirst(fileType, fs) ==
    IF ~Falsy(fs.explicitPath) /\ fs.explicitExists
    THEN Source("file", <<fs.explicitPath.s>>, "")
    ELSE IF fs.zipExists
         THEN Source("zip", <<"DEFAULT_GOV_ZIP_PATH">>, DEFAULT_GOV_ZIP_ENTRIES[fileType])
    ELSE LET match == SearchIn(SearchDirs(fs), fileType, fs)
         IN  IF match # <<>> THEN Source("file", match, "") ELSE Source("null", <<>>, "")

\* storage.ts:575-604
resolveGovDataSource(fileType, fs) ==
    IF ~Falsy(fs.explicitPath) /\ fs.explicitExists
    THEN Source("file", <<fs.explicitPath.s>>, "")
    ELSE LET match == SearchIn(SearchDirs(fs), fileType, fs)
         IN  IF match # <<>> THEN Source("file", match, "")
             ELSE IF fs.zipExists
                  THEN Source("zip", <<"DEFAULT_GOV_ZIP_PATH">>, DEFAULT_GOV_ZIP_ENTRIES[fileType])
             ELSE Source("null", <<>>, "")

\* what readdirSync gives for a directory: it throws, or the names in order
Listings ==
    {[readable |-> FALSE, files |-> <<>>],
     [readable |-> TRUE, files |-> <<>>],
     [readable |-> TRUE,
      files |-> <<<<"g", "o", "v", "_", "b", "i", "o", "m", "e", "t", "r", "i", "c", ".", "t", "x", "t">>,
                  <<"n", "o", "t", "e", "s", ".", "c", "s", "v">>,
                  <<"m", "y", "_", "g", "o", "v", "_", "e", "n", "r", "o", "l", "m", "e", "n", "t", ".", "c", "s", "v">>>>],
     [readable |-> TRUE,
      files |-> <<<<"n", "o", "t", "e", "s", ".", "c", "s", "v">>,
                  <<"g", "o", "v", "_", "b", "i", "o", "m", "e", "t", "r", "i", "c", ".", "c", "s", "v">>,
                  <<"a", "p", "i", "_", "d", "a", "t", "a", "_", "a", "a", "d", "h", "a", "r", "_", "e", "n", "r", "o", "l", "m", "e", "n", "t", "_", "1", ".", "c", "s", "v">>,
                  <<"g", "o", "v", "_", "d", "e", "m", "o", "g", "r", "a", "p", "h", "i", "c", ".", "c", "s", "v">>>>],
     [readable |-> TRUE,
      files |-> <<<<"g", "o", "v", "_", "e", "n", "r", "o", "l", "l", "m", "e", "n", "t", ".", "c", "s", "v">>,
                  <<"a", "p", "i", "_", "d", "a", "t", "a", "_", "a", "a", "d", "h", "a", "r", "_", "e", "n", "r", "o", "l", "m", "e", "n", "t", "_", "1", ".", "c", "s", "v">>,
                  <<"g", "o", "v", "_", "b", "i", "o", "m", "e", "t", "r", "i", "c", "_", "2", ".", "c", "s", "v">>,
                  <<"g", "o", "v", "_", "b", "i", "o", "m", "e", "t", "r", "i", "c", ".", "c", "s", "v">>>>]}

\* the environment and the disk that the resolver reads: the variant's
\* path variable is not set, or set to a path that exists or not
FileSystems ==
    {[explicitPath |-> x.explicitPath, explicitExists |-> x.explicitExists,
      dataDir |-> dataDir, listing |-> listing, zipExists |-> zipExists] :
        x \in {[explicitPath |-> Undefined, explicitExists |-> FALSE],
               [explicitPath |-> Str(<<"/", "r", "e", "f", ".", "c", "s", "v">>),
                explicitExists |-> FALSE],
               [explicitPath |-> Str(<<"/", "r", "e", "f", ".", "c", "s", "v">>),
                explicitExists |-> TRUE]},
        dataDir \in {Undefined, Str(<<"/", "g", "o", "v">>)},
        listing \in [{"GOV_DATA_DIR", "attached_assets", "server/data", "data"} -> Listings],
        zipExists \in BOOLEAN}

InitResolve ==
    /\ govDataSets = [ft \in KnownFileType |-> EmptyMap]
    /\ govDataLoaded = {}
    /\ loadIdx = 1
    /\ uploads = <<>>
    /\ records = <<>>
    /\ req = Idle(0)
    /\ trace = <<>>
    /\ govDataMap = {}
    /\ keyRows = <<>>
    /\ keyOut = <<>>
    /\ cmpIn = <<>>
    /\ cmpOut = <<>>
    /\ detectIn = <<>>
    /\ detectOut = ""
    /\ charts = <<>>
    /\ reqFile = <<>>
    /\ chartsReq = <<>>
    /\ reply = <<>>
    /\ unzip = <<>>
    /\ govParse = <<>>
    /\ stored = <<>>
    /\ resolveOut = <<>>
    /\ \E fileType \in KnownFileType : \E fs \in FileSystems :
          /\ Falsy(fs.dataDir) => ~fs.listing["GOV_DATA_DIR"].readable
          /\ resolveIn = <<[fileType |-> fileType, fs |-> fs]>>

\* storage.ts:676: const source = resolveGovDataSource(fileType)
Resolve ==
    /\ resolveOut = <<>>
    /\ resolveIn # <<>>
    /\ resolveOut' = <<resolveGovDataSource(resolveIn[1].fileType, resolveIn[1].fs)>>
    /\ UNCHANGED <<govDataSets, govDataLoaded, loadIdx, uploads, records, req, trace,
                   govDataMap, keyRows, keyOut, cmpIn, cmpOut,
                   detectIn, detectOut, charts, resolveIn, reqFile,
                   chartsReq, reply, unzip, govParse, stored>>

SpecResolve == InitResolve /\ [][Resolve]_vars

\* the name is the prefix followed by something that ends with ".csv"
NamedFor(file, fileType) ==
    \E k \in 1..Len(GOV_FILE_PREFIXES[fileType]) : \E rest \in {SubSeq(file, i, Len(file)) : i \in 1..(Len(file) + 1)} :
        /\ file = GOV_FILE_PREFIXES[fileType][k] \o rest
        /\ Len(file) >= 4
        /\ SubSeq(file, Len(file) - 3, Len(file)) = <<".", "c", "s", "v">>

\* the directories searched, in their order
DirOrder(fs) ==
    IF fs.dataDir.t = "string" /\ fs.dataDir.s # <<>>
    THEN <<"GOV_DATA_DIR", "attached_assets", "server/data", "data">>
    ELSE <<"attached_assets", "server/data", "data">>

\* positions in DirOrder of the readable directories with a file named for the variant
DirsWithFile(fs, fileType) ==
    {d \in 1..Len(DirOrder(fs)) :
        /\ fs.listing[DirOrder(fs)[d]].readable
        /\ \E i \in 1..Len(fs.listing[DirOrder(fs)[d]].files) :
              NamedFor(fs.listing[DirOrder(fs)[d]].files[i], fileType)}

\* C20: resolveGovDataSource returns the explicit path when it is set and
\* exists; otherwise the first file named for the variant in the first
\* directory, in the fixed order, that has one, a missing or unreadable
\* directory being skipped; otherwise the variant's entry of the archive
\* when the archive exists; otherwise null.
C20_SourcePriority ==
    resolveOut # <<>> =>
        LET fileType == resolveIn[1].fileType
            fs == resolveIn[1].fs
            source == resolveOut[1]
            explicit == fs.explicitPath.t = "string" /\ fs.explicitExists
            dirs == DirsWithFile(fs, fileType)
        IN  /\ explicit => source = [kind |-> "file", path |-> <<fs.explicitPath.s>>, entry |-> ""]
            /\ ~explicit /\ dirs # {} =>
                  \E d \in dirs : \E i \in 1..Len(fs.listing[DirOrder(fs)[d]].files) :
                     LET files == fs.listing[DirOrder(fs)[d]].files
                     IN  /\ \A e \in dirs : d <= e
                         /\ NamedFor(files[i], fileType)
                         /\ \A j \in 1..(i - 1) : ~NamedFor(files[j], fileType)
                         /\ source = [kind |-> "file", path |-> <<DirOrder(fs)[d], files[i]>>,
                                      entry |-> ""]
            /\ ~explicit /\ dirs = {} /\ fs.zipExists =>
                  /\ source.kind = "zip"
                  /\ source.entry = DEFAULT_GOV_ZIP_ENTRIES[fileType]
            /\ ~explicit /\ dirs = {} /\ ~fs.zipExists => source.kind = "null"

\* the explicit path is set but missing, GOV_DATA_DIR cannot be read,
\* attached_assets has no file named for the variant, server/data has one
\* after another file, and the archive exists: the file of server/data
C20_Witness ==
    /\ resolveOut # <<>>
    /\ resolveIn[1].fileType = "biometric"
    /\ resolveIn[1].fs.explicitPath.t = "string"
    /\ ~resolveIn[1].fs.explicitExists
    /\ resolveIn[1].fs.dataDir.t = "string"
    /\ ~resolveIn[1].fs.listing["GOV_DATA_DIR"].readable
    /\ Len(resolveIn[1].fs.listing["attached_assets"].files) = 3
    /\ resolveIn[1].fs.zipExists
    /\ resolveOut[1].kind = "file"
    /\ resolveOut[1].path[1] = "server/data"
    /\ resolveOut[1].path[2] = <<"g", "o", "v", "_", "b", "i", "o", "m", "e", "t", "r", "i", "c", ".", "c", "s", "v">>

----------------------------------------------------------------------------
(* Start-up before requests, storage.ts:693-703 *)

\* C21: no upload is matched while a reference load is in progress: until
\* loadGovernmentData has gone through every variant there is no upload,
\* no request in flight and no verification loop, and every step that
\* handles an upload request is taken after the last variant's load ended.
C21_NoMatchingWhileLoading ==
    /\ [](~Serving => uploads = <<>> /\ records = <<>> /\ trace = <<>> /\ req = Idle(0))
    /\ [][(req' # req \/ uploads' # uploads \/ trace' # trace) => Serving]_vars

\* every variant was loaded, and then a row of an upload was matched
C21_Witness ==
    /\ Serving
    /\ govDataLoaded = KnownFileType
    /\ req.pc = "createRecords"
    /\ Len(trace) = 1
    /\ trace[1].lookedUp

\* C23: each variant is either marked loaded, with the index that parsing
\* the whole of some source gives, or not marked loaded, with an empty
\* index; a load that fails leaves the variant's index empty and unmarked,
\* whatever was parsed before the failure.
C23_LoadedWholeOrEmpty ==
    \A ft \in KnownFileType :
        IF ft \in govDataLoaded
        THEN \E rows \in RefFiles(ft) :
                govDataSets[ft] = parseGovernmentDataset(ft, rows).dataset
        ELSE govDataSets[ft] = EmptyMap

\* after start-up: one variant loaded with an entry, the others failed or had no source
C23_Witness ==
    /\ Serving
    /\ govDataLoaded = {"biometric"}
    /\ Cardinality(DOMAIN govDataSets["biometric"]) = 1
    /\ govDataSets["enrollment"] = EmptyMap
    /\ govDataSets["demographic"] = EmptyMap

----------------------------------------------------------------------------
(* A charts request beside upload requests: each database query of the
   handlers is a step, and the steps of two requests interleave *)

\* storage.ts:703-823: an upload request with rows of the file with a
\* "village" column or of the file whose first row has no marker column
RaceUploadRequest ==
    /\ Serving
    /\ Len(uploads) <= MaxUploads
    /\ \E k \in {3, 4} : \E n \in 1..MaxRows : PostUpload(Batch(Shapes[k], n))
    /\ UNCHANGED <<reqFile, chartsReq, reply, unzip, govParse, stored>>

\* storage.ts:921: a request without uploadId awaits getUploads(); the
\* first of them is the upload created last
ChartsGetUploads ==
    /\ Serving
    /\ charts = <<>>
    /\ chartsReq = <<>>
    /\ chartsReq' = <<[pc |-> IF uploads = <<>> THEN "upload" ELSE "records",
                       uploadId |-> 0,
                       id |-> Len(uploads),
                       visible |-> FALSE,
                       recordsList |-> <<>>]>>
    /\ UNCHANGED <<govDataSets, govDataLoaded, loadIdx, uploads, records, req, trace,
                   govDataMap, keyRows, keyOut, cmpIn, cmpOut,
                   detectIn, detectOut, charts, resolveIn, resolveOut, reqFile,
                   reply, unzip, govParse, stored>>

\* storage.ts:919 and 923: getAllRecordsByUploadId, of the uploadId of the
\* query or of the upload getUploads() returned first
ChartsGetRecords ==
    /\ Serving
    /\ charts = <<>>
    /\ \E uploadId \in 0..(Len(uploads) + 1) :
          /\ IF uploadId = 0
             THEN chartsReq # <<>> /\ chartsReq[1].pc = "records"
             ELSE chartsReq = <<>>
          /\ LET id == IF uploadId = 0 THEN chartsReq[1].id ELSE uploadId
             IN  chartsReq' = <<[pc |-> "upload",
                                 uploadId |-> uploadId,
                                 id |-> id,
                                 visible |-> id \in 1..Len(uploads),
                                 recordsList |-> SelectSeq(records, LAMBDA r : r.uploadId = id)]>>
    /\ UNCHANGED <<govDataSets, govDataLoaded, loadIdx, uploads, records, req, trace,
                   govDataMap, keyRows, keyOut, cmpIn, cmpOut,
                   detectIn, detectOut, charts, resolveIn, resolveOut, reqFile,
                   reply, unzip, govParse, stored>>

\* storage.ts:931-1012: getUpload(uploadId), or getUploads() once more,
\* then the aggregation and the response
ChartsRespond ==
    /\ chartsReq # <<>>
    /\ chartsReq[1].pc = "upload"
    /\ LET id == IF chartsReq[1].uploadId # 0 THEN chartsReq[1].uploadId ELSE Len(uploads)
           known == id \in 1..Len(uploads)
           uploadedColumns == IF known THEN uploads[id].columns ELSE {}
           recordsList == chartsReq[1].recordsList
       IN  \E c \in {ChartsOf(recordsList, uploadedColumns)} :
              charts' = <<[recordsList |-> recordsList,
                           uploadedColumns |-> uploadedColumns,
                           fileType |-> IF known THEN uploads[id].fileType ELSE "unknown",
                           response |-> c,
                           uploadId |-> chartsReq[1].uploadId,
                           recordsOf |-> chartsReq[1].id,
                           visible |-> chartsReq[1].visible,
                           columnsOf |-> IF known THEN id ELSE 0]>>
    /\ chartsReq' = <<>>
    /\ UNCHANGED <<govDataSets, govDataLoaded, loadIdx, uploads, records, req, trace,
                   govDataMap, keyRows, keyOut, cmpIn, cmpOut,
                   detectIn, detectOut, resolveIn, resolveOut, reqFile,
                   reply, unzip, govParse, stored>>

NextRace ==
    \/ RaceUploadRequest
    \/ UploadCreateRecords
    \/ ChartsGetUploads
    \/ ChartsGetRecords
    \/ ChartsRespond

SpecRace == InitCharts /\ [][NextRace]_vars

\* C22: the records a charts request aggregates for an upload that is
\* visible, with its summary counts, when they are read are all the verdict
\* records of the upload: as many as its totalRecords.
C22_AllRecordsOrNone ==
    Charted /\ charts[1].visible =>
        Len(charts[1].recordsList) = uploads[charts[1].recordsOf].totalRecords

\* C27: the response to a charts request without uploadId aggregates the
\* records of the upload whose column list it sums over.
C27_RecordsAndColumnsOfOneUpload ==
    Charted /\ charts[1].uploadId = 0 => charts[1].recordsOf = charts[1].columnsOf

----------------------------------------------------------------------------
(* The handlers that only read, storage.ts:844-911 and 1015-1063 *)

\* (a / b) * 100 as the pair of 100 * a and b; b = 0 with a = 0 is NaN
Rate(a, b) == [num |-> 100 * a, den |-> b]

\* what a handler sends: res.status(status).json(body)
Reply(handler, status, body) == <<[handler |-> handler, status |-> status, body |-> body]>>

\* the rows getUploads() returns: ordered by uploadDate, the last first
getUploads == [i \in 1..Len(uploads) |-> uploads[Len(uploads) + 1 - i]]

\* storage.ts:844-848
ListUploads ==
    /\ Serving
    /\ reply' = Reply("list", 200, getUploads)
    /\ UNCHANGED <<govDataSets, govDataLoaded, loadIdx, uploads, records, req, trace,
                   govDataMap, keyRows, keyOut, cmpIn, cmpOut,
                   detectIn, detectOut, charts, resolveIn, resolveOut, reqFile,
                   chartsReq, unzip, govParse, stored>>

\* storage.ts:850-855
GetUpload ==
    /\ Serving
    /\ \E id \in 0..(Len(uploads) + 1) :
          reply' = IF id \in 1..Len(uploads)
                   THEN Reply("get", 200, uploads[id])
                   ELSE Reply("get", 404, "Upload not found")
    /\ UNCHANGED <<govDataSets, govDataLoaded, loadIdx, uploads, records, req, trace,
                   govDataMap, keyRows, keyOut, cmpIn, cmpOut,
                   detectIn, detectOut, charts, resolveIn, resolveOut, reqFile,
                   chartsReq, unzip, govParse, stored>>

\* storage.ts:857-873 and 50-62: a page of the records of an upload; a
\* query without page or limit, or with 0, is page 1 of 50 records
GetRecords ==
    /\ Serving
    /\ \E uploadId \in 0..(Len(uploads) + 1) : \E queryPage \in 0..2 : \E queryLimit \in {0, 10} :
          LET page == IF queryPage = 0 THEN 1 ELSE queryPage
              limit == IF queryLimit = 0 THEN 50 ELSE queryLimit
              offset == (page - 1) * limit
              all == SelectSeq(records, LAMBDA r : r.uploadId = uploadId)
              total == Len(all)
              last == IF total < offset + limit THEN total ELSE offset + limit
          IN  reply' = Reply("records", 200,
                             [data |-> SubSeq(all, offset + 1, last),
                              total |-> total,
                              page |-> page,
                              totalPages |-> (total + limit - 1) \div limit])
    /\ UNCHANGED <<govDataSets, govDataLoaded, loadIdx, uploads, records, req, trace,
                   govDataMap, keyRows, keyOut, cmpIn, cmpOut,
                   detectIn, detectOut, charts, resolveIn, resolveOut, reqFile,
                   chartsReq, unzip, govParse, stored>>

\* storage.ts:875-911: the counts of the upload of the query, or of the
\* upload created last
GetStats ==
    /\ Serving
    /\ \E uploadId \in 0..(Len(uploads) + 1) :
          LET id == IF uploadId # 0 THEN uploadId ELSE Len(uploads)
              upload == uploads[id]
          IN  reply' =
                 IF id \in 1..Len(uploads)
                 THEN Reply("stats", 200,
                            [id |-> upload.id,
                             total |-> upload.totalRecords,
                             verified |-> upload.verifiedCount,
                             mismatch |-> upload.mismatchCount,
                             notFound |-> upload.notFoundCount,
                             verificationRate |->
                                 IF upload.totalRecords > 0
                                 THEN Rate(upload.verifiedCount, upload.totalRecords)
                                 ELSE Rate(0, 1),
                             fileType |-> upload.fileType,
                             columns |-> upload.columns])
                 ELSE IF uploadId # 0
                 THEN Reply("stats", 404, "Upload not found")
                 ELSE Reply("stats", 200,
                            [total |-> 0, verified |-> 0, mismatch |-> 0, notFound |-> 0,
                             verificationRate |-> Rate(0, 1)])
    /\ UNCHANGED <<govDataSets, govDataLoaded, loadIdx, uploads, records, req, trace,
                   govDataMap, keyRows, keyOut, cmpIn, cmpOut,
                   detectIn, detectOut, charts, resolveIn, resolveOut, reqFile,
                   chartsReq, unzip, govParse, stored>>

\* storage.ts:1014-1063: the first of the columns keeps the order of the
\* file's header; of the response the fields that depend on the upload
GetInsights ==
    /\ Serving
    /\ \E uploadId \in 0..(Len(uploads) + 1) :
          LET id == IF uploadId # 0 THEN uploadId ELSE Len(uploads)
              upload == uploads[id]
              header == <<"date", "state", "district", "pincode", "age_0_5", "age_5_17", "village">>
              ageColumns == SelectSeq(header, LAMBDA col : col \in upload.columns /\ IsAgeColumn(col))
              formatName(col) ==
                  CASE col = "age_0_5" -> "0-5"
                    [] col = "age_5_17" -> "5-17"
                    [] OTHER -> col
              fileTypeDisplay ==
                  CASE upload.fileType = "biometric" -> "Biometric Data"
                    [] upload.fileType = "enrollment" -> "Enrollment Data"
                    [] upload.fileType = "demographic" -> "Demographic Data"
                    [] OTHER -> "Unknown Data"
          IN  reply' =
                 IF id \in 1..Len(uploads)
                 THEN Reply("insights", 200,
                            [dominantAgeGroup |-> IF Len(ageColumns) > 0
                                                  THEN formatName(ageColumns[1]) ELSE "N/A",
                             verificationRate |-> Rate(upload.verifiedCount, upload.totalRecords),
                             ageGroups |-> [i \in 1..Len(ageColumns) |-> formatName(ageColumns[i])],
                             fileType |-> fileTypeDisplay])
                 ELSE Reply("insights", 200,
                            [dominantAgeGroup |-> "N/A",
                             verificationRate |-> Rate(0, 1),
                             ageGroups |-> <<>>,
                             fileType |-> "None"])
    /\ UNCHANGED <<govDataSets, govDataLoaded, loadIdx, uploads, records, req, trace,
                   govDataMap, keyRows, keyOut, cmpIn, cmpOut,
                   detectIn, detectOut, charts, resolveIn, resolveOut, reqFile,
                   chartsReq, unzip, govParse, stored>>

\* storage.ts:703-823: the first upload request, with a few rows of a file
ServeUploadRequest ==
    /\ Serving
    /\ uploads = <<>>
    /\ \E k \in 1..Len(Shapes) : \E n \in 0..MaxRows : PostUpload(Batch(Shapes[k], n))
    /\ UNCHANGED <<reqFile, chartsReq, reply, unzip, govParse, stored>>

NextServe ==
    \/ ServeUploadRequest
    \/ UploadCreateRecords
    \/ GetCharts
    \/ ListUploads
    \/ GetUpload
    \/ GetRecords
    \/ GetStats
    \/ GetInsights

SpecServe == InitCharts /\ [][NextServe]_vars

\* C24: once loadGovernmentData has ended, no step of a request handler
\* (upload, uploads list, single upload, records, stats, charts, insights)
\* changes the reference indexes or the set of loaded variants.
C24_HandlersKeepReferenceData ==
    [][Serving => govDataSets' = govDataSets /\ govDataLoaded' = govDataLoaded]_vars

\* an upload was stored and charted, and a page of its records was listed
C24_Witness ==
    /\ Serving
    /\ req = Idle(201)
    /\ Charted
    /\ reply # <<>>
    /\ reply[1].handler = "records"
    /\ reply[1].body.total > 0
    /\ govDataLoaded = {"enrollment"}

----------------------------------------------------------------------------
(* A load from an archive, storage.ts:606-627 and 629-670: the parser reads
   the output of the unzip child; the events of the two interleave *)

\* a loader that awaits the parser alone, as it does for a plain file
PromiseAll_ParserOnly(promises) == promises[1]

\* Promise.all of two promises: rejected with the first rejection,
\* fulfilled when both are
PromiseAll(promises) ==
    IF \E i \in 1..Len(promises) : promises[i] = "rejected" THEN "rejected"
    ELSE IF \A i \in 1..Len(promises) : promises[i] = "fulfilled" THEN "fulfilled"
    ELSE "pending"

\* storage.ts:666: what the loader awaits for an archive
Awaited == PromiseAll(<<unzip[1].parsePromise, unzip[1].completion>>)

Unzipping == unzip # <<>> /\ unzip[1].load = "awaiting"

\* storage.ts:682 and 612-616: the loader's turn for a variant whose source
\* is an archive; spawn gives a child, and without child.stdout
\* createGovDataStream throws into the loader's catch. rows: the rows the
\* child writes before it ends
UnzipSpawn ==
    /\ ~Serving
    /\ ~Unzipping
    /\ \E rows \in RefFiles(KNOWN_FILE_TYPES[loadIdx]) : \E stdout \in BOOLEAN :
          unzip' = <<[fileType |-> KNOWN_FILE_TYPES[loadIdx],
                      rows |-> rows,
                      read |-> 0,
                      parser |-> IF stdout THEN "running" ELSE "none",
                      child |-> IF stdout THEN "running" ELSE "nostdout",
                      code |-> 0,
                      parsePromise |-> "pending",
                      completion |-> "pending",
                      load |-> IF stdout THEN "awaiting" ELSE "failed"]>>
          /\ loadIdx' = IF stdout THEN loadIdx ELSE loadIdx + 1
    /\ UNCHANGED <<govDataSets, govDataLoaded, uploads, records, req, trace,
                   govDataMap, keyRows, keyOut, cmpIn, cmpOut,
                   detectIn, detectOut, charts, resolveIn, resolveOut, reqFile,
                   chartsReq, reply, govParse, stored>>

\* storage.ts:645-658: the parser takes the next row off the stream
ParserStep ==
    /\ Unzipping
    /\ unzip[1].parser = "running"
    /\ unzip[1].read < Len(unzip[1].rows)
    /\ unzip' = <<[unzip[1] EXCEPT !.read = @ + 1]>>
    /\ UNCHANGED <<govDataSets, govDataLoaded, loadIdx, uploads, records, req, trace,
                   govDataMap, keyRows, keyOut, cmpIn, cmpOut,
                   detectIn, detectOut, charts, resolveIn, resolveOut, reqFile,
                   chartsReq, reply, govParse, stored>>

\* storage.ts:659: the stream ended; complete resolves parsePromise
ParserComplete ==
    /\ Unzipping
    /\ unzip[1].parser = "running"
    /\ unzip[1].read = Len(unzip[1].rows)
    /\ unzip' = <<[unzip[1] EXCEPT !.parser = "complete", !.parsePromise = "fulfilled"]>>
    /\ UNCHANGED <<govDataSets, govDataLoaded, loadIdx, uploads, records, req, trace,
                   govDataMap, keyRows, keyOut, cmpIn, cmpOut,
                   detectIn, detectOut, charts, resolveIn, resolveOut, reqFile,
                   chartsReq, reply, govParse, stored>>

\* storage.ts:660: the parser reports an error; parsePromise is rejected
ParserError ==
    /\ Unzipping
    /\ unzip[1].parser = "running"
    /\ unzip' = <<[unzip[1] EXCEPT !.parser = "error", !.parsePromise = "rejected"]>>
    /\ UNCHANGED <<govDataSets, govDataLoaded, loadIdx, uploads, records, req, trace,
                   govDataMap, keyRows, keyOut, cmpIn, cmpOut,
                   detectIn, detectOut, charts, resolveIn, resolveOut, reqFile,
                   chartsReq, reply, govParse, stored>>

\* storage.ts:619: the child's "error" event (unzip could not be started)
ChildError ==
    /\ Unzipping
    /\ unzip[1].child = "running"
    /\ unzip' = <<[unzip[1] EXCEPT !.child = "error", !.completion = "rejected"]>>
    /\ UNCHANGED <<govDataSets, govDataLoaded, loadIdx, uploads, records, req, trace,
                   govDataMap, keyRows, keyOut, cmpIn, cmpOut,
                   detectIn, detectOut, charts, resolveIn, resolveOut, reqFile,
                   chartsReq, reply, govParse, stored>>

\* storage.ts:620-623: the child's "close" event with its exit code (-1:
\* null, the child was killed); a promise that is settled stays as it is
ChildClose ==
    /\ Unzipping
    /\ unzip[1].child \in {"running", "error"}
    /\ \E code \in {0, 1, -1} :
          /\ unzip[1].child = "error" => code # 0
          /\ unzip' = <<[unzip[1] EXCEPT
                           !.child = "closed",
                           !.code = code,
                           !.completion = IF @ # "pending" THEN @
                                          ELSE IF code = 0 THEN "fulfilled"
                                          ELSE "rejected"]>>
    /\ UNCHANGED <<govDataSets, govDataLoaded, loadIdx, uploads, records, req, trace,
                   govDataMap, keyRows, keyOut, cmpIn, cmpOut,
                   detectIn, detectOut, charts, resolveIn, resolveOut, reqFile,
                   chartsReq, reply, govParse, stored>>

\* storage.ts:682-689: the awaited promise is settled and the loader goes
\* on: with the dataset and the mark, or through its catch
LoadSettled ==
    /\ Unzipping
    /\ Awaited # "pending"
    /\ IF Awaited = "fulfilled"
       THEN LET fileType == unzip[1].fileType
                rows == SubSeq(unzip[1].rows, 1, unzip[1].read)
            IN  /\ govDataSets' = [govDataSets EXCEPT
                                     ![fileType] = parseGovernmentDataset(fileType, rows).dataset]
                /\ govDataLoaded' = govDataLoaded \cup {fileType}
                /\ unzip' = <<[unzip[1] EXCEPT !.load = "loaded"]>>
       ELSE /\ unzip' = <<[unzip[1] EXCEPT !.load = "failed"]>>
            /\ UNCHANGED <<govDataSets, govDataLoaded>>
    /\ loadIdx' = loadIdx + 1
    /\ UNCHANGED <<uploads, records, req, trace,
                   govDataMap, keyRows, keyOut, cmpIn, cmpOut,
                   detectIn, detectOut, charts, resolveIn, resolveOut, reqFile,
                   chartsReq, reply, govParse, stored>>

NextUnzip ==
    \/ UnzipSpawn
    \/ ParserStep
    \/ ParserComplete
    \/ ParserError
    \/ ChildError
    \/ ChildClose
    \/ LoadSettled

\* the reaction to a settled promise is run; nothing is assumed of the
\* parser and of the child
SpecUnzip == Init /\ [][NextUnzip]_vars /\ WF_vars(LoadSettled)

\* C25: a variant whose source is an archive is marked loaded only in a
\* step taken when the parser has completed and the unzip child has closed
\* with code 0, and then with the index of all the rows; after a child that
\* did not start or closed with another code the variant is never marked,
\* even if the parser completed; and once the parser or the child has
\* failed the load ends, whatever the other one does.
C25_ArchiveLoad ==
    /\ [][govDataLoaded' # govDataLoaded =>
             /\ Unzipping
             /\ unzip[1].parser = "complete"
             /\ unzip[1].child = "closed" /\ unzip[1].code = 0
             /\ govDataLoaded' = govDataLoaded \cup {unzip[1].fileType}
             /\ govDataSets'[unzip[1].fileType] =
                   parseGovernmentDataset(unzip[1].fileType, unzip[1].rows).dataset]_vars
    /\ [](unzip # <<>> /\ unzip[1].load = "loaded" =>
             unzip[1].child = "closed" /\ unzip[1].code = 0 /\ unzip[1].parser = "complete")
    /\ \A i \in 1..Len(KNOWN_FILE_TYPES) :
          (loadIdx = i /\ Unzipping /\ (unzip[1].parser = "error" \/ unzip[1].child = "error"
                                       \/ (unzip[1].child = "closed" /\ unzip[1].code # 0)))
             ~> (loadIdx > i /\ KNOWN_FILE_TYPES[i] \notin govDataLoaded)

\* the parser completed on all the rows and the child closed with code 1:
\* the load has failed; the variant before was loaded from its archive
C25_Witness ==
    /\ unzip # <<>>
    /\ unzip[1].fileType = "enrollment"
    /\ unzip[1].parser = "complete"
    /\ unzip[1].read = 1
    /\ unzip[1].child = "closed" /\ unzip[1].code = 1
    /\ unzip[1].load = "failed"
    /\ govDataLoaded = {"biometric"}
    /\ govDataSets["biometric"] # EmptyMap

----------------------------------------------------------------------------
(* parseGovernmentDataset on reference files with repeated keys, rows
   without a key, cells that are missing and columns that are not declared *)

MaxFileRows == 2

\* rows with a key: the indexed row with a column the variant does not
\* declare; a row of the same key, spelt differently, with every age cell;
\* a row of another key
KeyedRefRows(fileType) ==
    LET cols == AGE_COLUMNS_BY_TYPE[fileType]
    IN  { RefKeyFields @@ RefAges(fileType) @@ [village |-> Str(<<"x">>)],
          UploadKeyFields @@ [c \in Range(cols) |-> Num(7)],
          [RefKeyFields EXCEPT !.pincode = Num(42)] @@ RefAges(fileType) }

\* rows that lack the date, the state, the district or the pincode
KeylessRefRows(fileType) ==
    { fields @@ RefAges(fileType) :
        fields \in {NoDateFields, NoStateFields, NoDistrictFields, NoPincodeFields} }

GovFiles(fileType) ==
    SeqUpTo(KeyedRefRows(fileType) \cup KeylessRefRows(fileType), MaxFileRows)

\* storage.ts:629-670 and 683: the loader's call for a variant and a file
ParseGovFile ==
    /\ govParse = <<>>
    /\ \E fileType \in KnownFileType : \E rows \in GovFiles(fileType) :
          govParse' = <<[fileType |-> fileType,
                         rows |-> rows,
                         result |-> parseGovernmentDataset(fileType, rows)]>>
    /\ UNCHANGED <<govDataSets, govDataLoaded, loadIdx, uploads, records, req, trace,
                   govDataMap, keyRows, keyOut, cmpIn, cmpOut,
                   detectIn, detectOut, charts, resolveIn, resolveOut, reqFile,
                   chartsReq, reply, unzip, stored>>

SpecParse == Init /\ [][ParseGovFile]_vars

\* the rows of the parsed file that have a key, in the file's order
KeyedOf == SelectSeq(govParse[1].rows, LAMBDA r : r \in KeyedRefRows(govParse[1].fileType))

\* the last row of the file with the key
LastWithKey(key) ==
    LET at == {i \in 1..Len(KeyedOf) : buildRecordKey(KeyedOf[i]) = key}
    IN  KeyedOf[CHOOSE i \in at : \A j \in at : j <= i]

\* C26: every record of the index has the variant's declared comparable
\* columns and no other field, a column missing from the reference row
\* holding the no-value sentinel; a row lacking the date, the state, the
\* district or the pincode adds no entry, and the parse still resolves with
\* the entries of the other rows.
C26_DeclaredColumnsOnly ==
    govParse # <<>> =>
        LET fileType == govParse[1].fileType
            dataset == govParse[1].result.dataset
            declared == {AGE_COLUMNS_BY_TYPE[fileType][i] : i \in 1..Len(AGE_COLUMNS_BY_TYPE[fileType])}
        IN  /\ DOMAIN dataset = {buildRecordKey(KeyedOf[i]) : i \in 1..Len(KeyedOf)}
            /\ \A key \in DOMAIN dataset :
                  /\ DOMAIN dataset[key] = declared
                  /\ \A col \in declared :
                        col \notin DOMAIN LastWithKey(key) => dataset[key][col] = Null
            /\ dataset = parseGovernmentDataset(fileType, KeyedOf).dataset

\* a file of a row without pincode and the row with an undeclared column
\* and without the second age column
C26_Witness ==
    /\ govParse # <<>>
    /\ govParse[1].fileType = "enrollment"
    /\ Len(govParse[1].rows) = 2
    /\ govParse[1].rows[1] \in KeylessRefRows("enrollment")
    /\ "village" \in DOMAIN govParse[1].rows[2]
    /\ Cardinality(DOMAIN govParse[1].result.dataset) = 1
    /\ \A key \in DOMAIN govParse[1].result.dataset :
          govParse[1].result.dataset[key]["age_5_17"] = Null

\* the keys of the rows that have one are pairwise distinct
DistinctKeys ==
    \A i, j \in 1..Len(KeyedOf) :
        buildRecordKey(KeyedOf[i]) = buildRecordKey(KeyedOf[j]) => i = j

\* C29 as stated: the count the loader reports is the number of entries
\* of the index.
C29_AsStated ==
    govParse # <<>> =>
        govParse[1].result.count = Cardinality(DOMAIN govParse[1].result.dataset)

\* C29: the count the loader reports is the number of rows that have a
\* key; it is at least the number of entries of the index, and equal to it
\* exactly when the keys of those rows are pairwise distinct.
C29_CountsKeyedRows ==
    govParse # <<>> =>
        LET count == govParse[1].result.count
            entries == Cardinality(DOMAIN govParse[1].result.dataset)
        IN  /\ count = Len(KeyedOf)
            /\ count >= entries
            /\ (count = entries) <=> DistinctKeys

\* two rows of one key, spelt differently: count 2, one entry
C29_Witness ==
    /\ govParse # <<>>
    /\ Len(govParse[1].rows) = 2
    /\ govParse[1].rows[1] # govParse[1].rows[2]
    /\ ~DistinctKeys
    /\ govParse[1].result.count = 2
    /\ Cardinality(DOMAIN govParse[1].result.dataset) = 1

----------------------------------------------------------------------------
(* Uploads of tens of thousands of rows, storage.ts:813-835. The list of
   verdict records is kept as its runs: a run [status, n] stands for n
   records of the status one after the other *)

MaxVerdictRuns == 2

\* the number of records of the runs
RunsLen(runs) ==
    LET upTo[k \in 0..Len(runs)] == IF k = 0 THEN 0 ELSE upTo[k - 1] + runs[k].n
    IN  upTo[Len(runs)]

\* the number of records of the status
RunsCount(runs, status) == RunsLen(SelectSeq(runs, LAMBDA run : run.status = status))

\* Array.prototype.slice(0, n) of the list of the runs
RunsSlice(runs, n) ==
    LET before(k) == RunsLen(SubSeq(runs, 1, k - 1))
        cut == [k \in 1..Len(runs) |->
                  [runs[k] EXCEPT !.n = IF before(k) + @ <= n THEN @
                                        ELSE IF before(k) >= n THEN 0
                                        ELSE n - before(k)]]
    IN  SelectSeq(cut, LAMBDA run : run.n > 0)

\* a limit to the first ten thousand records
processedRecords_TenThousand(finalRecords) ==
    IF RunsLen(finalRecords) > 10000 THEN RunsSlice(finalRecords, 10000) ELSE finalRecords

\* storage.ts:831-833
processedRecords(finalRecords) ==
    IF RunsLen(finalRecords) > RecordCap THEN RunsSlice(finalRecords, RecordCap) ELSE finalRecords

\* runs of one record, and of about RecordCap records
VerdictRuns ==
    [status : {"Verified", "Mismatch", "NotFound"},
     n : {1, RecordCap - 1, RecordCap, RecordCap + 1}]

\* storage.ts:813-837: the upload is created with the counts of the loop
\* over all the rows, and the processed records are inserted
LongUpload ==
    /\ Serving
    /\ stored = <<>>
    /\ \E recordsToInsert \in SeqUpTo(VerdictRuns, MaxVerdictRuns) :
          stored' = <<[recordsToInsert |-> recordsToInsert,
                       upload |-> [totalRecords |-> RunsLen(recordsToInsert),
                                   verifiedCount |-> RunsCount(recordsToInsert, "Verified"),
                                   mismatchCount |-> RunsCount(recordsToInsert, "Mismatch"),
                                   notFoundCount |-> RunsCount(recordsToInsert, "NotFound")],
                       records |-> processedRecords(recordsToInsert)]>>
    /\ UNCHANGED <<govDataSets, govDataLoaded, loadIdx, uploads, records, req, trace,
                   govDataMap, keyRows, keyOut, cmpIn, cmpOut,
                   detectIn, detectOut, charts, resolveIn, resolveOut, reqFile,
                   chartsReq, reply, unzip, govParse>>

SpecLong == InitCharts /\ [][LongUpload]_vars

\* the status of the k-th record of the runs
StatusAt(runs, k) ==
    runs[CHOOSE j \in 1..Len(runs) :
            RunsLen(SubSeq(runs, 1, j - 1)) < k /\ k <= RunsLen(SubSeq(runs, 1, j))].status

\* the positions at which a run of the runs starts or ends
Ends(runs) ==
    UNION {{RunsLen(SubSeq(runs, 1, j - 1)) + 1, RunsLen(SubSeq(runs, 1, j))} : j \in 1..Len(runs)}

\* the persisted records of the status
Persisted(status) == RunsCount(stored[1].records, status)

----------------------------------------------------------------------------
(* Round trip: the rows of the loaded reference files are uploaded *)

\* reference rows: the indexed row; under a second key a row without any
\* age cell, and a row with the second age cell only, a numeral with a blank
RoundRows(fileType) ==
    LET second == [RefKeyFields EXCEPT !.pincode = Num(42)]
    IN  { RefKeyFields @@ RefAges(fileType),
          second,
          second @@ [c \in {AGE_COLUMNS_BY_TYPE[fileType][2]} |-> Str(<<"5", " ">>)] }

\* reference files whose composite keys are pairwise distinct
RoundFiles(fileType) ==
    { file \in SeqUpTo(RoundRows(fileType), MaxFileRows) :
        \A i, j \in 1..Len(file) :
            buildRecordKey(file[i]) = buildRecordKey(file[j]) => i = j }

\* storage.ts:682-686: the variant's file is parsed and the variant marked
RoundLoad ==
    /\ ~Serving
    /\ \E rows \in RoundFiles(KNOWN_FILE_TYPES[loadIdx]) :
          LET fileType == KNOWN_FILE_TYPES[loadIdx]
          IN  /\ govDataSets' = [govDataSets EXCEPT
                                   ![fileType] = parseGovernmentDataset(fileType, rows).dataset]
              /\ govDataLoaded' = govDataLoaded \cup {fileType}
    /\ loadIdx' = loadIdx + 1
    /\ UNCHANGED <<uploads, records, req, trace, govDataMap, keyRows, keyOut, cmpIn, cmpOut,
                   detectIn, detectOut, charts, resolveIn, resolveOut, reqFile,
                   chartsReq, reply, unzip, govParse, stored>>

\* storage.ts:703-823: an upload of rows of a variant's reference file
RoundUploadRequest ==
    /\ Serving
    /\ uploads = <<>>
    /\ \E family \in KnownFileType :
       \E parsedData \in SeqUpTo(RoundRows(family), MaxRows) : PostUpload(parsedData)
    /\ UNCHANGED <<reqFile, chartsReq, reply, unzip, govParse, stored>>

SpecRound == Init /\ [][RoundLoad \/ RoundUploadRequest \/ UploadCreateRecords]_vars

\* the uploaded row i is a row of the variant's reference file as loaded:
\* the index holds, under the row's key, the record of the row
IsReferenceRow(i, fileType) ==
    LET row == trace[i].row
        key == buildRecordKey(row)
    IN  /\ row \in RoundRows(fileType)
        /\ key \in DOMAIN govDataSets[fileType]
        /\ govDataSets[fileType][key] = GovRecordOf(row, AGE_COLUMNS_BY_TYPE[fileType])

\* the row has a cell in a comparable column of the variant that the
\* first row of the upload has as well
OwnsComparedColumn(i, fileType) ==
    \E c \in DOMAIN trace[i].row \cap DOMAIN trace[1].row :
        \E k \in 1..Len(AGE_COLUMNS_BY_TYPE[fileType]) : AGE_COLUMNS_BY_TYPE[fileType][k] = c

\* a value of the indexes is what normalizing it gives
NormalizedIndexes ==
    \A fileType \in KnownFileType : \A key \in DOMAIN govDataSets[fileType] :
        \A col \in DOMAIN govDataSets[fileType][key] :
            normalizeComparableValue(govDataSets[fileType][key][col])
                = govDataSets[fileType][key][col]

\* C30 as stated: every row of an upload of a variant that is a row of the
\* variant's loaded reference file is Verified, and the values of the
\* indexes are normalized.
C30_AsStated ==
    /\ NormalizedIndexes
    /\ \A i \in 1..Len(trace) : \A fileType \in KnownFileType :
          uploads[1].fileType = fileType /\ IsReferenceRow(i, fileType) /\ records # <<>>
             => records[i].status = "Verified"

\* C30: a row of an upload of a variant that is a row of the variant's
\* loaded reference file is Verified if it has a cell in one of the
\* variant's comparable columns that the upload's first row has too, and
\* NotFound if it has none; the values of the indexes are normalized.
C30_RoundTrip ==
    /\ NormalizedIndexes
    /\ \A i \in 1..Len(trace) : \A fileType \in KnownFileType :
          uploads[1].fileType = fileType /\ IsReferenceRow(i, fileType) /\ records # <<>>
             => records[i].status =
                   IF OwnsComparedColumn(i, fileType) THEN "Verified" ELSE "NotFound"

\* the two rows of the enrollment file were uploaded: the first Verified,
\* the second, without any age cell, NotFound
C30_Witness ==
    /\ Len(records) = 2
    /\ uploads[1].fileType = "enrollment"
    /\ IsReferenceRow(1, "enrollment") /\ IsReferenceRow(2, "enrollment")
    /\ records[1].status = "Verified"
    /\ records[2].status = "NotFound"
    /\ govDataSets["enrollment"][buildRecordKey(trace[1].row)]["age_18_greater"] = Str(<<"a">>)

====
